---- MODULE Spec2Model ----
(***************************************************************************)
(* A model of the Renju/Gomoku rule engine (src/board.py) and of the move  *)
(* choosing strategies (src/ai.py).                                        *)
(*                                                                         *)
(* A board is a record with the fields of class Board.  Every method that  *)
(* writes to the grid while it works (the forbidden checks place a stone   *)
(* and take it back) is an operator that returns both the method's result  *)
(* and the board as the method leaves it, so that "the board is restored"  *)
(* is a property of the model and not an assumption of it.                 *)
(***************************************************************************)
EXTENDS Integers, Sequences, FiniteSets, TLC

VARIABLES board, call, ai, game

vars == <<board, call, ai, game>>

(***************************************************************************)
(* Player representation and directions: board.py lines 5-10.              *)
(***************************************************************************)
EMPTY == 0
BLACK == 1
WHITE == 2

DIRECTIONS == << <<0, 1>>, <<1, 0>>, <<1, 1>>, <<1, -1>> >>

\* Python's None, for last_move, forbidden_checked_pos, center and win_info.
None == <<>>

(***************************************************************************)
(* Bounds of the model.                                                    *)
(***************************************************************************)
\* move_count arguments range over 0..MaxMoveCount; from 3 on the opening
\* rules no longer apply.
MaxMoveCount == 3
\* No more than MaxStones stones are put on a board.
MaxStones == 10

\* SpecAI: the stones on the board when find_move is asked for the last
\* time, and the largest finite clock of a find_move of AIHard.
MaxGameStones == 5
MaxClock == 1

MoveCounts == 0..MaxMoveCount
LateMoveCounts == 3..MaxMoveCount
Players == {BLACK, WHITE}

(***************************************************************************)
(* class Board                                                             *)
(***************************************************************************)
Cells(size) == (0..(size - 1)) \X (0..(size - 1))

\* Board.__init__ (size >= win_length, else ValueError).
Board(size, win_length) ==
    [size |-> size,
     win_length |-> win_length,
     grid |-> [r \in 1..size |-> [c \in 1..size |-> EMPTY]],
     last_move |-> None,
     forbidden_checked_pos |-> None,
     center |-> IF size % 2 = 1 THEN <<size \div 2, size \div 2>> ELSE None]

is_within_bounds(b, row, col) ==
    0 <= row /\ row < b.size /\ 0 <= col /\ col < b.size

\* self.grid[r, c]: the grid is kept as rows of cells, numbered from 1 here.
GridAt(b, r, c) == b.grid[r + 1][c + 1]

is_empty(b, row, col) == GridAt(b, row, col) = EMPTY

\* The assignment self.grid[r, c] = v.
SetCell(b, r, c, v) == [b EXCEPT !.grid[r + 1][c + 1] = v]

\* list(zip(*np.where(self.grid == EMPTY))): the empty cells, row by row.
get_empty_cells(b) ==
    SelectSeq([k \in 1..(b.size * b.size) |->
                  <<(k - 1) \div b.size, (k - 1) % b.size>>],
              LAMBDA p : GridAt(b, p[1], p[2]) = EMPTY)

Stones(b) == Cardinality({p \in Cells(b.size) : GridAt(b, p[1], p[2]) # EMPTY})

Abs(x) == IF x < 0 THEN -x ELSE x

\* The while loops of check_win, _count_line_length and _count_line_details:
\* the number of consecutive cells holding player, from (cr, cc) on, in
\* steps of (dr, dc).
RECURSIVE CountWhile(_, _, _, _, _, _)
CountWhile(b, cr, cc, dr, dc, player) ==
    IF is_within_bounds(b, cr, cc) /\ GridAt(b, cr, cc) = player
    THEN 1 + CountWhile(b, cr + dr, cc + dc, dr, dc, player)
    ELSE 0

\* The for loops of _is_forbidden, "for i in range(1, self.size)": the same
\* count, taken for i = 1 .. size-1 with a break at the first other cell.
RECURSIVE CountRange(_, _, _, _, _, _, _)
CountRange(b, r, c, dr, dc, player, i) ==
    IF i < b.size
       /\ is_within_bounds(b, r + i * dr, c + i * dc)
       /\ GridAt(b, r + i * dr, c + i * dc) = player
    THEN 1 + CountRange(b, r, c, dr, dc, player, i + 1)
    ELSE 0

_count_line_length(b, r, c, dr, dc, player) ==
    1 + CountWhile(b, r + dr, c + dc, dr, dc, player)
      + CountWhile(b, r - dr, c - dc, -dr, -dc, player)

\* <<count, open_ends>>
_count_line_details(b, r, c, dr, dc, player) ==
    LET pos == CountWhile(b, r + dr, c + dc, dr, dc, player)
        neg == CountWhile(b, r - dr, c - dc, -dr, -dc, player)
        pr == r + (pos + 1) * dr
        pc == c + (pos + 1) * dc
        nr == r - (neg + 1) * dr
        nc == c - (neg + 1) * dc
        open_pos == IF is_within_bounds(b, pr, pc) /\ GridAt(b, pr, pc) = EMPTY
                    THEN 1 ELSE 0
        open_neg == IF is_within_bounds(b, nr, nc) /\ GridAt(b, nr, nc) = EMPTY
                    THEN 1 ELSE 0
    IN  <<1 + pos + neg, open_pos + open_neg>>

(***************************************************************************)
(* Board._is_forbidden (lines 267-345).  bt is the board with the          *)
(* candidate stone on it; every return path hands back the board as it     *)
(* leaves it.                                                              *)
(***************************************************************************)
\* A slip in lines 314-316: the early return forgets to take the stone back.
_is_forbidden_win_return_keeps_stone(bt, r, c) ==
    [ret |-> FALSE, board |-> bt]

\* A slip in lines 314-316: the early return reports the move as forbidden.
_is_forbidden_win_return_forbids(bt, r, c) ==
    [ret |-> TRUE, board |-> SetCell(bt, r, c, EMPTY)]

\* Lines 314-316: a run of exactly win_length; the stone is taken back and
\* the move is not forbidden.
_is_forbidden_win_return(bt, r, c) ==
    [ret |-> FALSE, board |-> SetCell(bt, r, c, EMPTY)]

\* A slip in lines 337-342: the double-four test is left out.
_is_forbidden_result_no_double_four(bt, r, c, overline_created, open_threes, fours) ==
    [ret |-> overline_created \/ open_threes >= 2,
     board |-> SetCell(bt, r, c, EMPTY)]

\* Lines 330-345: after the loop (or its break) the stone is taken back and
\* the counts decide.
_is_forbidden_result(bt, r, c, overline_created, open_threes, fours) ==
    [ret |-> overline_created \/ open_threes >= 2 \/ fours >= 2,
     board |-> SetCell(bt, r, c, EMPTY)]

\* Lines 288-328: the loop over DIRECTIONS, from direction i on.
RECURSIVE _is_forbidden_loop(_, _, _, _, _, _, _)
_is_forbidden_loop(bt, r, c, player, i, open_threes, fours) ==
    IF i > Len(DIRECTIONS)
    THEN _is_forbidden_result(bt, r, c, FALSE, open_threes, fours)
    ELSE LET dr == DIRECTIONS[i][1]
             dc == DIRECTIONS[i][2]
             count == 1 + CountRange(bt, r, c, dr, dc, player, 1)
                        + CountRange(bt, r, c, -dr, -dc, player, 1)
             det == _count_line_details(bt, r, c, dr, dc, player)
         IN  IF count > bt.win_length
             THEN _is_forbidden_result(bt, r, c, TRUE, open_threes, fours)
             ELSE IF count = bt.win_length
             THEN _is_forbidden_win_return(bt, r, c)
             ELSE _is_forbidden_loop(bt, r, c, player, i + 1,
                      open_threes + (IF det[1] = 3 /\ det[2] = 2 THEN 1 ELSE 0),
                      fours + (IF det[1] = 4 THEN 1 ELSE 0))

_is_forbidden(b, r, c, player) ==
    IF player # BLACK
    THEN [ret |-> FALSE, board |-> b]
    ELSE _is_forbidden_loop(SetCell(b, r, c, player), r, c, player, 1, 0, 0)

(***************************************************************************)
(* Board.is_forbidden (lines 190-232), the public check: no exemption for  *)
(* a run of exactly win_length.                                            *)
(***************************************************************************)
\* <<forbidden, open_threes, fours>> of the loop of lines 202-218.
RECURSIVE is_forbidden_loop(_, _, _, _, _, _)
is_forbidden_loop(bt, r, c, i, open_threes, fours) ==
    IF i > Len(DIRECTIONS)
    THEN <<FALSE, open_threes, fours>>
    ELSE LET dr == DIRECTIONS[i][1]
             dc == DIRECTIONS[i][2]
             line_len == _count_line_length(bt, r, c, dr, dc, BLACK)
             det == _count_line_details(bt, r, c, dr, dc, BLACK)
         IN  IF line_len > bt.win_length
             THEN <<TRUE, open_threes, fours>>
             ELSE is_forbidden_loop(bt, r, c, i + 1,
                      open_threes + (IF det[1] = 3 /\ det[2] = 2 THEN 1 ELSE 0),
                      fours + (IF det[1] = 4 THEN 1 ELSE 0))

is_forbidden(b, r, c) ==
    LET bt == SetCell(b, r, c, BLACK)
        res == is_forbidden_loop(bt, r, c, 1, 0, 0)
    IN  [ret |-> res[1] \/ res[2] >= 2 \/ res[3] >= 2,
         board |-> SetCell(bt, r, c, EMPTY)]

(***************************************************************************)
(* Board.is_valid_move (lines 40-97) and Board.place_stone (lines 99-105). *)
(***************************************************************************)
\* A slip in lines 62-67: the second move is allowed below the centre
\* instead of above it.
ShukeiAllows_below_center(b, row, col, move_count) ==
    IF b.center # None /\ b.size >= 5
    THEN LET center_r == b.center[1]
             center_c == b.center[2]
         IN  CASE move_count = 0 -> <<row, col>> = b.center
               [] move_count = 1 ->
                    <<row, col>> \in {<<center_r + 1, center_c>>,
                                      <<center_r - 1, center_c + 1>>}
               [] move_count = 2 ->
                    Abs(row - center_r) <= 2 /\ Abs(col - center_c) <= 2
               [] OTHER -> TRUE
    ELSE TRUE

\* Lines 54-80: the opening rules (Shukei) for the first three stones.
ShukeiAllows(b, row, col, move_count) ==
    IF b.center # None /\ b.size >= 5
    THEN LET center_r == b.center[1]
             center_c == b.center[2]
         IN  CASE move_count = 0 -> <<row, col>> = b.center
               [] move_count = 1 ->
                    <<row, col>> \in {<<center_r - 1, center_c>>,
                                      <<center_r - 1, center_c + 1>>}
               [] move_count = 2 ->
                    Abs(row - center_r) <= 2 /\ Abs(col - center_c) <= 2
               [] OTHER -> TRUE
    ELSE TRUE

\* Lines 82-97: the forbidden check for Black and the marker it leaves.
is_valid_move_forbidden_step(b, row, col, player) ==
    IF player = BLACK
    THEN LET f == _is_forbidden(b, row, col, player)
         IN  IF f.ret
             THEN [ret |-> FALSE,
                   board |-> [f.board EXCEPT
                                !.forbidden_checked_pos = <<row, col>>]]
             ELSE [ret |-> TRUE,
                   board |-> [f.board EXCEPT !.forbidden_checked_pos = None]]
    ELSE [ret |-> TRUE, board |-> [b EXCEPT !.forbidden_checked_pos = None]]

\* A slip in lines 49-52: the check that the cell is empty is left out.
is_valid_move_no_empty_check(b, row, col, player, move_count) ==
    IF ~is_within_bounds(b, row, col) THEN [ret |-> FALSE, board |-> b]
    ELSE IF ~ShukeiAllows(b, row, col, move_count)
    THEN [ret |-> FALSE, board |-> b]
    ELSE is_valid_move_forbidden_step(b, row, col, player)

is_valid_move(b, row, col, player, move_count) ==
    IF ~is_within_bounds(b, row, col) THEN [ret |-> FALSE, board |-> b]
    ELSE IF ~is_empty(b, row, col) THEN [ret |-> FALSE, board |-> b]
    ELSE IF ~ShukeiAllows(b, row, col, move_count)
    THEN [ret |-> FALSE, board |-> b]
    ELSE is_valid_move_forbidden_step(b, row, col, player)

\* A slip in lines 102-103: last_move is not updated.
place_stone_keeps_last_move(b, row, col, player, move_count) ==
    LET v == is_valid_move(b, row, col, player, move_count)
    IN  IF v.ret
        THEN [ret |-> TRUE,
              board |-> [v.board EXCEPT !.grid[row + 1][col + 1] = player]]
        ELSE [ret |-> FALSE, board |-> v.board]

place_stone(b, row, col, player, move_count) ==
    LET v == is_valid_move(b, row, col, player, move_count)
    IN  IF v.ret
        THEN [ret |-> TRUE,
              board |-> [v.board EXCEPT !.grid[row + 1][col + 1] = player,
                                        !.last_move = <<row, col>>]]
        ELSE [ret |-> FALSE, board |-> v.board]

(***************************************************************************)
(* Board.check_win (lines 107-144).                                        *)
(***************************************************************************)
\* Tuples compare as Python compares them: by row, then by column.
TupleLess(p, q) == p[1] < q[1] \/ (p[1] = q[1] /\ p[2] < q[2])

\* line_coords of one direction: the cells of the run through (r, c).
LineCoords(b, r, c, dr, dc, player) ==
    LET pos == CountWhile(b, r + dr, c + dc, dr, dc, player)
        neg == CountWhile(b, r - dr, c - dc, -dr, -dc, player)
    IN  {<<r + k * dr, c + k * dc>> : k \in (-neg)..pos}

\* Lines 136-142: line_coords.sort(); its first and its last element.
WinInfo(coords, dr, dc) ==
    <<CHOOSE p \in coords : \A q \in coords : p = q \/ TupleLess(p, q),
      CHOOSE p \in coords : \A q \in coords : p = q \/ TupleLess(q, p),
      <<dr, dc>> >>

RECURSIVE check_win_loop(_, _, _, _, _)
check_win_loop(b, r, c, player, i) ==
    IF i > Len(DIRECTIONS)
    THEN [won |-> FALSE, info |-> None]
    ELSE LET dr == DIRECTIONS[i][1]
             dc == DIRECTIONS[i][2]
             coords == LineCoords(b, r, c, dr, dc, player)
         IN  IF Cardinality(coords) >= b.win_length
             THEN [won |-> TRUE, info |-> WinInfo(coords, dr, dc)]
             ELSE check_win_loop(b, r, c, player, i + 1)

\* A slip in lines 112-113: the colour of the last-move cell is not looked
\* at.
check_win_any_colour(b, player) ==
    IF b.last_move = None THEN [won |-> FALSE, info |-> None]
    ELSE check_win_loop(b, b.last_move[1], b.last_move[2], player, 1)

check_win(b, player) ==
    IF b.last_move = None THEN [won |-> FALSE, info |-> None]
    ELSE IF GridAt(b, b.last_move[1], b.last_move[2]) # player THEN [won |-> FALSE, info |-> None]
    ELSE check_win_loop(b, b.last_move[1], b.last_move[2], player, 1)

(***************************************************************************)
(* ai.py.  A strategy object is a record with the fields of its class; a   *)
(* find_move returns the set of moves it may return (more than one where   *)
(* it draws with random.choice) and the board as it leaves it.             *)
(***************************************************************************)
\* AIBase.__init__ (lines 13-16).
AIBase(kind, player) ==
    [kind |-> kind,
     player |-> player,
     opponent |-> IF player = BLACK THEN WHITE ELSE BLACK]

\* A local variable: the value of an expression, computed once, handed to
\* the code that follows the assignment.
With(value, Do(_)) == CHOOSE result \in {Do(local) : local \in {value}} : TRUE

\* The elements of a list.
Elements(seq) == {seq[i] : i \in 1..Len(seq)}

\* random.choice(valid_moves), or None for the empty list.
ChoiceOrNone(valid_moves) ==
    IF valid_moves = <<>> THEN {None} ELSE Elements(valid_moves)

\* A slip in the loops of lines 41-44, 212-215 and 291: the cells are not
\* filtered by is_valid_move.
ValidMoves_unfiltered(b, cells, lo, hi, player, move_count) ==
    [valid |-> SubSeq(cells, lo, hi), board |-> b]

\* The loops "for r, c in cells: if board.is_valid_move(r, c, player,
\* move_count): valid_moves.append((r, c))" over cells[lo..hi].  (A loop
\* over a list is written as the loop over its first half followed by the
\* loop over its second half.)
RECURSIVE ValidMoves(_, _, _, _, _, _)
ValidMoves(b, cells, lo, hi, player, move_count) ==
    IF lo > hi
    THEN [valid |-> <<>>, board |-> b]
    ELSE IF lo = hi
    THEN With(is_valid_move(b, cells[lo][1], cells[lo][2], player, move_count),
              LAMBDA v :
              [valid |-> IF v.ret THEN <<cells[lo]>> ELSE <<>>,
               board |-> v.board])
    ELSE With(ValidMoves(b, cells, lo, (lo + hi) \div 2, player, move_count),
              LAMBDA first :
              With(ValidMoves(first.board, cells, (lo + hi) \div 2 + 1, hi,
                              player, move_count),
                   LAMBDA second :
                   [valid |-> first.valid \o second.valid,
                    board |-> second.board]))

\* AIEasy.find_move (lines 33-57).
AIEasy_find_move(a, b, move_count) ==
    LET empty_cells == get_empty_cells(b)
    IN  IF empty_cells = <<>>
        THEN [rets |-> {None}, board |-> b]
        ELSE With(ValidMoves(b, empty_cells, 1, Len(empty_cells), a.player,
                             move_count),
                  LAMBDA vm :
                  [rets |-> ChoiceOrNone(vm.valid), board |-> vm.board])

\* A slip in lines 132-133 (and 146-147, 304-305, 319-320): the stone is
\* taken back but last_move is left on the cell that was tried.
TryStone_keeps_last_move(b, r, c, stone) ==
    LET b1 == [SetCell(b, r, c, stone) EXCEPT !.last_move = <<r, c>>]
    IN  [ret |-> check_win(b1, stone).won,
         board |-> SetCell(b1, r, c, EMPTY)]

\* Lines 128-133 (and 142-147, 301-305, 316-320): a stone is put on
\* (r, c) with last_move on it, check_win is asked for its colour, and the
\* stone and last_move are put back.
TryStone(b, r, c, stone) ==
    LET b1 == [SetCell(b, r, c, stone) EXCEPT !.last_move = <<r, c>>]
    IN  [ret |-> check_win(b1, stone).won,
         board |-> [SetCell(b1, r, c, EMPTY) EXCEPT !.last_move = b.last_move]]

\* check_pattern_created (lines 72-106).  A pattern string is the sequence
\* of its cell states, each state being one character of it.
check_pattern_created(b, r_check, c_check, p_check, pattern_tuple) ==
    LET pattern == pattern_tuple[1]
        length == pattern_tuple[2]
        check_indices == pattern_tuple[3]
        bt == SetCell(b, r_check, c_check, p_check)
        temp_opponent == IF p_check = BLACK THEN WHITE ELSE BLACK
        created ==
            \E d \in Elements(DIRECTIONS), offset \in (1 - length)..0 :
                LET positions == [i \in 1..length |->
                                     <<r_check + (offset + i - 1) * d[1],
                                       c_check + (offset + i - 1) * d[2]>>]
                    segment_states ==
                        [i \in 1..length |->
                            IF is_within_bounds(bt, positions[i][1], positions[i][2])
                            THEN GridAt(bt, positions[i][1], positions[i][2])
                            ELSE temp_opponent]
                IN  /\ segment_states = pattern
                    /\ \E idx \in check_indices :
                          positions[idx + 1] = <<r_check, c_check>>
    IN  [ret |-> created, board |-> SetCell(bt, r_check, c_check, EMPTY)]

\* Lines 109-121: the patterns, for the stones p_ and o_.
open_four_pattern(p_) == <<<<EMPTY, p_, p_, p_, p_, EMPTY>>, 6, {1, 2, 3, 4}>>

closed_four_patterns(p_, o_) ==
    << <<<<o_, p_, p_, p_, p_, EMPTY>>, 6, {1, 2, 3, 4}>>,
       <<<<EMPTY, p_, p_, p_, p_, o_>>, 6, {1, 2, 3, 4}>> >>

open_three_pattern(p_) == <<<<EMPTY, p_, p_, p_, EMPTY>>, 5, {1, 2, 3}>>

\* A slip in lines 142-148: the test for the opponent's win finds nothing.
NormalTest_no_block(a, b, r, c, priority) ==
    CASE priority = 1 -> TryStone(b, r, c, a.player)
      [] priority = 2 -> [ret |-> FALSE, board |-> b]
      [] priority = 3 ->
            check_pattern_created(b, r, c, a.player, open_four_pattern(a.player))
      [] priority = 5 ->
            With(check_pattern_created(
                     b, r, c, a.player,
                     closed_four_patterns(a.player, a.opponent)[1]),
                 LAMBDA t1 :
                 IF t1.ret THEN t1
                 ELSE check_pattern_created(
                          t1.board, r, c, a.player,
                          closed_four_patterns(a.player, a.opponent)[2]))
      [] priority = 6 ->
            check_pattern_created(b, r, c, a.player, open_three_pattern(a.player))

\* A slip in lines 142-145: the stone tried for the block is the player's own.
NormalTest_block_own_stone(a, b, r, c, priority) ==
    CASE priority = 1 -> TryStone(b, r, c, a.player)
      [] priority = 2 -> TryStone(b, r, c, a.player)
      [] priority = 3 ->
            check_pattern_created(b, r, c, a.player, open_four_pattern(a.player))
      [] priority = 5 ->
            With(check_pattern_created(
                     b, r, c, a.player,
                     closed_four_patterns(a.player, a.opponent)[1]),
                 LAMBDA t1 :
                 IF t1.ret THEN t1
                 ELSE check_pattern_created(
                          t1.board, r, c, a.player,
                          closed_four_patterns(a.player, a.opponent)[2]))
      [] priority = 6 ->
            check_pattern_created(b, r, c, a.player, open_three_pattern(a.player))

\* The test a priority of AINormal.find_move makes on a valid cell:
\* 1 win (128-134), 2 block a win (142-148), 3 open four (157),
\* 5 closed four (180-181), 6 open three (189).
NormalTest(a, b, r, c, priority) ==
    CASE priority = 1 -> TryStone(b, r, c, a.player)
      [] priority = 2 -> TryStone(b, r, c, a.opponent)
      [] priority = 3 ->
            check_pattern_created(b, r, c, a.player, open_four_pattern(a.player))
      [] priority = 5 ->
            With(check_pattern_created(
                     b, r, c, a.player,
                     closed_four_patterns(a.player, a.opponent)[1]),
                 LAMBDA t1 :
                 IF t1.ret THEN t1
                 ELSE check_pattern_created(
                          t1.board, r, c, a.player,
                          closed_four_patterns(a.player, a.opponent)[2]))
      [] priority = 6 ->
            check_pattern_created(b, r, c, a.player, open_three_pattern(a.player))

\* The loops of priorities 1, 2, 3, 5 and 6 over cells[lo..hi]: the first
\* cell that is a valid move and passes the test is returned.
RECURSIVE NormalScan(_, _, _, _, _, _, _)
NormalScan(a, b, cells, lo, hi, move_count, priority) ==
    IF lo > hi
    THEN [ret |-> None, board |-> b]
    ELSE IF lo = hi
    THEN With(is_valid_move(b, cells[lo][1], cells[lo][2], a.player,
                            move_count),
              LAMBDA v :
              IF ~v.ret THEN [ret |-> None, board |-> v.board]
              ELSE With(NormalTest(a, v.board, cells[lo][1], cells[lo][2],
                                   priority),
                        LAMBDA t :
                        [ret |-> IF t.ret THEN cells[lo] ELSE None,
                         board |-> t.board]))
    ELSE With(NormalScan(a, b, cells, lo, (lo + hi) \div 2, move_count,
                         priority),
              LAMBDA first :
              IF first.ret # None THEN first
              ELSE NormalScan(a, first.board, cells, (lo + hi) \div 2 + 1, hi,
                              move_count, priority))

\* Lines 162-167 and 194-199: the empty cells among cells[lo..hi] on which
\* the opponent would make the pattern.
RECURSIVE OpponentThreatMoves(_, _, _, _, _, _)
OpponentThreatMoves(a, b, cells, lo, hi, pattern_tuple) ==
    IF lo > hi
    THEN [moves |-> <<>>, board |-> b]
    ELSE IF lo = hi
    THEN IF ~is_empty(b, cells[lo][1], cells[lo][2])
         THEN [moves |-> <<>>, board |-> b]
         ELSE With(check_pattern_created(b, cells[lo][1], cells[lo][2],
                                         a.opponent, pattern_tuple),
                   LAMBDA t :
                   [moves |-> IF t.ret THEN <<cells[lo]>> ELSE <<>>,
                    board |-> t.board])
    ELSE With(OpponentThreatMoves(a, b, cells, lo, (lo + hi) \div 2,
                                  pattern_tuple),
              LAMBDA first :
              With(OpponentThreatMoves(a, first.board, cells,
                                       (lo + hi) \div 2 + 1, hi, pattern_tuple),
                   LAMBDA second :
                   [moves |-> first.moves \o second.moves,
                    board |-> second.board]))

\* Lines 169-174 and 201-205: the first of moves[lo..hi] that is valid.
RECURSIVE FirstValid(_, _, _, _, _, _)
FirstValid(b, moves, lo, hi, player, move_count) ==
    IF lo > hi
    THEN [ret |-> None, board |-> b]
    ELSE IF lo = hi
    THEN With(is_valid_move(b, moves[lo][1], moves[lo][2], player, move_count),
              LAMBDA v :
              [ret |-> IF v.ret THEN moves[lo] ELSE None, board |-> v.board])
    ELSE With(FirstValid(b, moves, lo, (lo + hi) \div 2, player, move_count),
              LAMBDA first :
              IF first.ret # None THEN first
              ELSE FirstValid(first.board, moves, (lo + hi) \div 2 + 1, hi,
                              player, move_count))

\* Priorities 4 and 7: block the opponent's pattern.
NormalBlock(a, b, cells, move_count, pattern_tuple) ==
    With(OpponentThreatMoves(a, b, cells, 1, Len(cells), pattern_tuple),
         LAMBDA t :
         FirstValid(t.board, t.moves, 1, Len(t.moves), a.player, move_count))

\* Priority 8 (lines 207-219): a random valid move.
NormalRandom(a, b, cells, move_count) ==
    With(ValidMoves(b, cells, 1, Len(cells), a.player, move_count),
         LAMBDA vm : [rets |-> ChoiceOrNone(vm.valid), board |-> vm.board])

\* Priorities from the given one on (lines 125-219).
RECURSIVE NormalPriorities(_, _, _, _, _)
NormalPriorities(a, b, cells, move_count, priority) ==
    IF priority = 8
    THEN NormalRandom(a, b, cells, move_count)
    ELSE With(CASE priority = 4 ->
                       NormalBlock(a, b, cells, move_count,
                                   open_four_pattern(a.opponent))
                [] priority = 7 ->
                       NormalBlock(a, b, cells, move_count,
                                   open_three_pattern(a.opponent))
                [] OTHER ->
                       NormalScan(a, b, cells, 1, Len(cells), move_count,
                                  priority),
              LAMBDA res :
              IF res.ret # None
              THEN [rets |-> {res.ret}, board |-> res.board]
              ELSE NormalPriorities(a, res.board, cells, move_count,
                                    priority + 1))

\* AINormal.find_move (lines 62-219).
AINormal_find_move(a, b, move_count) ==
    LET empty_cells == get_empty_cells(b)
    IN  IF empty_cells = <<>>
        THEN [rets |-> {None}, board |-> b]
        ELSE NormalPriorities(a, b, empty_cells, move_count, 1)

(***************************************************************************)
(* class AIHard (lines 222-770).                                           *)
(***************************************************************************)
PATTERN_SCORES ==
    [p_win |-> 10000000, p_open_four |-> 100000, p_closed_four |-> 10000,
     p_open_three |-> 5000, p_closed_three |-> 500, p_broken_three |-> 450,
     p_open_two |-> 100, p_closed_two |-> 10, p_broken_two |-> 5,
     o_win |-> -100000000, o_open_four |-> -6000000, o_closed_four |-> -50000,
     o_open_three |-> -150000, o_closed_three |-> -5000,
     o_broken_three |-> -4500, o_open_two |-> -1000, o_closed_two |-> -100,
     o_broken_two |-> -50]

\* math.inf: larger than the absolute value of every score of a board.
Inf == 2000000000

Max(x, y) == IF x >= y THEN x ELSE y

Min(x, y) == IF x <= y THEN x ELSE y

\* ZOBRIST_PLAYERS (line 8), for the two colours that are hashed.
ZOBRIST_PLAYERS(player) == IF player = BLACK THEN 0 ELSE 1

\* self.zobrist_table[r, c, player_index]: the table holds independent
\* random 64-bit numbers; an entry is represented by its index, and a hash
\* (the XOR of entries) by the set of the entries XOR-ed an odd number of
\* times.
zobrist_table(r, c, player_index) == <<r, c, player_index>>

\* h ^ entry
Xor(h, entry) == IF entry \in h THEN h \ {entry} ELSE h \cup {entry}

\* AIHard._calculate_board_hash (lines 272-281).
_calculate_board_hash(b) ==
    {zobrist_table(p[1], p[2], ZOBRIST_PLAYERS(GridAt(b, p[1], p[2]))) :
        p \in {q \in Cells(b.size) : GridAt(b, q[1], q[2]) # EMPTY}}

\* AIHard.__init__ (lines 250-259); time_limit is represented by the
\* number of clock readings that find it not yet exceeded, see
\* AIHard_find_move.  exact_returns is a history of the search, which the
\* code does not keep: the nodes at which _minimax has returned the score
\* of an exact entry of the table (line 472) since the table was cleared.
\* win_returns is such a history too: the nodes at which _minimax has
\* returned at line 492 or 493, each with the last move of the board, the
\* stone on it, the depth, the side of the node and the score returned.
\* searched holds the nodes that have reached line 563, each with its
\* candidate_moves and its ordered_possible_moves, as sets; hashed holds,
\* for every call of _minimax (lines 384, 575 and 600), the grid and the
\* hash passed.
AIHard(player, depth) ==
    [kind |-> "hard",
     player |-> player,
     opponent |-> IF player = BLACK THEN WHITE ELSE BLACK,
     max_depth |-> depth,
     transposition_table |-> <<>>,
     current_hash |-> {},
     exact_returns |-> {},
     win_returns |-> {},
     searched |-> {},
     hashed |-> {}]

\* create_ai (lines 774-788).
create_ai(difficulty, player) ==
    CASE difficulty = "easy" -> AIBase("easy", player)
      [] difficulty = "normal" -> AIBase("normal", player)
      [] difficulty = "hard" -> AIHard(player, 2)
      [] OTHER -> AIBase("easy", player)

\* grid.diagonal(k), of the grid or of the grid with its columns reversed
\* (lines 678, 681-683).
Diagonal(b, k, flipped) ==
    LET n == b.size - Abs(k)
        cells == [i \in 1..n |->
                     LET r == IF k >= 0 THEN i - 1 ELSE i - 1 - k
                         c == IF k >= 0 THEN i - 1 + k ELSE i - 1
                     IN  GridAt(b, r, IF flipped THEN b.size - 1 - c ELSE c)]
    IN  SubSeq(cells, 1, n)

\* AIHard._get_all_lines (lines 664-685): rows, columns, diagonals and
\* anti-diagonals, each a list of cell states.
_get_all_lines(b) ==
    [r \in 1..b.size |-> b.grid[r]]
    \o [c \in 1..b.size |-> SubSeq([r \in 1..b.size |-> b.grid[r][c]], 1, b.size)]
    \o [j \in 1..(2 * b.size - 1) |-> Diagonal(b, j - b.size, FALSE)]
    \o [j \in 1..(2 * b.size - 1) |-> Diagonal(b, j - b.size, TRUE)]

\* Lines 699-739: sorted_patterns for a line, as <<pattern, score>> pairs:
\* the patterns of the table, then those added for the line's two ends,
\* sorted by length, longest first, otherwise in the order of insertion.
sorted_patterns(a, line) ==
    LET p_ == a.player
        o_ == a.opponent
        e_ == EMPTY
        n == Len(line)
        S == PATTERN_SCORES
        Head5 == SubSeq(line, 1, 5)
        Tail5 == SubSeq(line, n - 4, n)
        Head4 == SubSeq(line, 1, 4)
        Tail4 == SubSeq(line, n - 3, n)
        When(cond, pattern, score) ==
            IF cond THEN << <<pattern, score>> >> ELSE <<>>
    IN  << <<<<e_, p_, p_, p_, p_, e_>>, S.p_open_four>>,
           <<<<e_, o_, o_, o_, o_, e_>>, S.o_open_four>>,
           <<<<o_, p_, p_, p_, p_, e_>>, S.p_closed_four>>,
           <<<<e_, p_, p_, p_, p_, o_>>, S.p_closed_four>>,
           <<<<p_, o_, o_, o_, o_, e_>>, S.o_closed_four>>,
           <<<<e_, o_, o_, o_, o_, p_>>, S.o_closed_four>>,
           <<<<e_, p_, p_, e_, p_, e_>>, S.p_broken_three>>,
           <<<<e_, p_, e_, p_, p_, e_>>, S.p_broken_three>>,
           <<<<e_, o_, o_, e_, o_, e_>>, S.o_broken_three>>,
           <<<<e_, o_, e_, o_, o_, e_>>, S.o_broken_three>>,
           <<<<p_, p_, p_, p_, p_>>, S.p_win>>,
           <<<<o_, o_, o_, o_, o_>>, S.o_win>>,
           <<<<e_, p_, p_, p_, e_>>, S.p_open_three>>,
           <<<<e_, o_, o_, o_, e_>>, S.o_open_three>>,
           <<<<o_, p_, p_, p_, e_>>, S.p_closed_three>>,
           <<<<e_, p_, p_, p_, o_>>, S.p_closed_three>>,
           <<<<p_, o_, o_, o_, e_>>, S.o_closed_three>>,
           <<<<e_, o_, o_, o_, p_>>, S.o_closed_three>> >>
        \o When(n >= 5 /\ Head5 = <<p_, p_, p_, p_, e_>>,
                <<p_, p_, p_, p_, e_>>, S.p_closed_four)
        \o When(n >= 5 /\ Tail5 = <<e_, p_, p_, p_, p_>>,
                <<e_, p_, p_, p_, p_>>, S.p_closed_four)
        \o When(n >= 5 /\ Head5 = <<o_, o_, o_, o_, e_>>,
                <<o_, o_, o_, o_, e_>>, S.o_closed_four)
        \o When(n >= 5 /\ Tail5 = <<e_, o_, o_, o_, o_>>,
                <<e_, o_, o_, o_, o_>>, S.o_closed_four)
        \o When(n >= 4 /\ Head4 = <<p_, p_, p_, e_>>,
                <<p_, p_, p_, e_>>, S.p_closed_three)
        \o When(n >= 4 /\ Tail4 = <<e_, p_, p_, p_>>,
                <<e_, p_, p_, p_>>, S.p_closed_three)
        \o When(n >= 4 /\ Head4 = <<o_, o_, o_, e_>>,
                <<o_, o_, o_, e_>>, S.o_closed_three)
        \o When(n >= 4 /\ Tail4 = <<e_, o_, o_, o_>>,
                <<e_, o_, o_, o_>>, S.o_closed_three)

\* Lines 745-756: the first pattern of patterns that the line holds at
\* position i (counted from 0); 0 if there is none.
MatchAt(line, patterns, i) ==
    LET Segment(pattern_len) ==
            IF i + pattern_len <= Len(line)
            THEN SubSeq(line, i + 1, i + pattern_len) ELSE <<>>
        segment == <<Segment(4), Segment(5), Segment(6)>>
        matching == {k \in 1..Len(patterns) :
                        segment[Len(patterns[k][1]) - 3] = patterns[k][1]}
    IN  IF matching = {} THEN 0
        ELSE CHOOSE k \in matching : \A j \in matching : k <= j

\* Lines 741-770: the greedy walk along the line from position i, with the
\* score kept so far (the first of the largest absolute value).
RECURSIVE EvaluateFrom(_, _, _, _)
EvaluateFrom(line, patterns, i, final_score) ==
    IF i >= Len(line) THEN final_score
    ELSE LET k == MatchAt(line, patterns, i)
         IN  IF k = 0
             THEN EvaluateFrom(line, patterns, i + 1, final_score)
             ELSE LET score == patterns[k][2]
                  IN  IF \/ score >= PATTERN_SCORES.p_win
                         \/ score <= PATTERN_SCORES.o_win
                      THEN score
                      ELSE EvaluateFrom(line, patterns,
                               i + Len(patterns[k][1]),
                               IF Abs(score) > Abs(final_score)
                               THEN score ELSE final_score)

\* AIHard._evaluate_line (lines 687-770).
_evaluate_line(a, line) ==
    EvaluateFrom(line, sorted_patterns(a, line), 0, 0)

\* Lines 632-651: the loop over lines[lo..hi]; done when a line has made
\* the function return.
RECURSIVE EvaluateLines(_, _, _, _, _)
EvaluateLines(a, lines, lo, hi, st) ==
    IF lo > hi \/ st.done THEN st
    ELSE IF lo = hi
    THEN LET line_eval_score == _evaluate_line(a, lines[lo])
         IN  IF line_eval_score >= PATTERN_SCORES.p_win
             THEN [done |-> TRUE, total_score |-> PATTERN_SCORES.p_win]
             ELSE IF line_eval_score <= PATTERN_SCORES.o_win
             THEN [done |-> TRUE, total_score |-> PATTERN_SCORES.o_win]
             ELSE [done |-> FALSE,
                   total_score |->
                      st.total_score + line_eval_score
                      + (IF line_eval_score = PATTERN_SCORES.o_open_four
                         THEN PATTERN_SCORES.o_open_four * 2
                         ELSE IF line_eval_score = PATTERN_SCORES.o_open_three
                         THEN PATTERN_SCORES.o_open_three * 2
                         ELSE 0)]
    ELSE LET mid == (lo + hi) \div 2
         IN  EvaluateLines(a, lines, mid + 1, hi,
                           EvaluateLines(a, lines, lo, mid, st))

\* AIHard._evaluate_board (lines 617-662).
_evaluate_board(a, b) ==
    LET lines == _get_all_lines(b)
    IN  EvaluateLines(a, lines, 1, Len(lines),
                      [done |-> FALSE, total_score |-> 0]).total_score

\* AIHard._heuristic_score_move_sim (lines 442-456): the number of stones
\* around (r, c).
_heuristic_score_move_sim(b, r, c) ==
    Cardinality({d \in (-1..1) \X (-1..1) :
                    /\ d # <<0, 0>>
                    /\ is_within_bounds(b, r + d[1], c + d[2])
                    /\ GridAt(b, r + d[1], c + d[2]) # EMPTY})

(***************************************************************************)
(* list(possible_moves_set), lines 432 and 523.  The build is CPython on a *)
(* 64-bit machine: a set of tuples of two small integers is listed in the  *)
(* order of the slots of its hash table, which follows from the hashes of  *)
(* the tuples (tupleobject.c) and from the order in which the cells were   *)
(* added (setobject.c).  A 64-bit number is the list of its eight bytes,   *)
(* the lowest first.                                                        *)
(***************************************************************************)
\* Byte k (from 1) of x; the bytes above the eighth are 0.
Byte(x, k) == IF k <= 8 THEN x[k] ELSE 0

\* The number of eight bytes whose columns, before the carries, are given.
Carry(columns) ==
    LET c1 == columns[1]
        c2 == columns[2] + (c1 \div 256)
        c3 == columns[3] + (c2 \div 256)
        c4 == columns[4] + (c3 \div 256)
        c5 == columns[5] + (c4 \div 256)
        c6 == columns[6] + (c5 \div 256)
        c7 == columns[7] + (c6 \div 256)
        c8 == columns[8] + (c7 \div 256)
    IN  <<c1 % 256, c2 % 256, c3 % 256, c4 % 256, c5 % 256, c6 % 256,
          c7 % 256, c8 % 256>>

\* x + y of C's unsigned 64-bit arithmetic.
Add64(x, y) == Carry(SubSeq([k \in 1..8 |-> x[k] + y[k]], 1, 8))

\* x * y of C's unsigned 64-bit arithmetic: column k of the long
\* multiplication is the sum of x[i] * y[k + 1 - i] over i in 1..k.
Term(x, y, k, i) == IF i <= k THEN x[i] * y[k + 1 - i] ELSE 0

Times64(x, y) ==
    Carry(SubSeq([k \in 1..8 |->
                     Term(x, y, k, 1) + Term(x, y, k, 2) + Term(x, y, k, 3)
                     + Term(x, y, k, 4) + Term(x, y, k, 5) + Term(x, y, k, 6)
                     + Term(x, y, k, 7) + Term(x, y, k, 8)],
                 1, 8))

\* x ^ y: bit i of two bytes, and the eight bits of each byte.
XorBit(a, b, i) == ((((a \div (2 ^ i)) + (b \div (2 ^ i))) % 2) * (2 ^ i))

Xor64(x, y) ==
    SubSeq([k \in 1..8 |->
               XorBit(x[k], y[k], 0) + XorBit(x[k], y[k], 1)
               + XorBit(x[k], y[k], 2) + XorBit(x[k], y[k], 3)
               + XorBit(x[k], y[k], 4) + XorBit(x[k], y[k], 5)
               + XorBit(x[k], y[k], 6) + XorBit(x[k], y[k], 7)],
           1, 8)

\* tupleobject.c: _PyHASH_XXPRIME_1 = 11400714785074694791, _PyHASH_XXPRIME_2
\* = 14029467366897019727, _PyHASH_XXPRIME_5 = 2870177450012600261.
_PyHASH_XXPRIME_1 == <<135, 202, 235, 133, 177, 121, 55, 158>>

_PyHASH_XXPRIME_2 == <<79, 235, 212, 39, 61, 174, 178, 194>>

_PyHASH_XXPRIME_5 == <<197, 103, 86, 22, 47, 235, 212, 39>>

\* tupleobject.c, _PyHASH_XXROTATE(x) = (x << 31) | (x >> 33): byte k of
\* the result is made of the bits 8 * (k - 1) + 33 to 8 * (k - 1) + 40 of x,
\* counted around the 64.
_PyHASH_XXROTATE(x) ==
    SubSeq([k \in 1..8 |->
               (x[((k + 3) % 8) + 1] \div 2)
               + (x[((k + 4) % 8) + 1] % 2) * 128],
           1, 8)

\* tupleobject.c, tuplehash: one element of the tuple; the hash of a small
\* integer is the integer.
TupleLane(acc, item) ==
    With(Times64(<<item, 0, 0, 0, 0, 0, 0, 0>>, _PyHASH_XXPRIME_2),
         LAMBDA lane :
         With(Add64(acc, lane),
              LAMBDA sum :
              With(_PyHASH_XXROTATE(sum),
                   LAMBDA rotated : Times64(rotated, _PyHASH_XXPRIME_1))))

\* tupleobject.c, tuplehash, for a tuple (r, c): acc += len ^
\* (_PyHASH_XXPRIME_5 ^ 3527539) after the elements; a result of -1 is
\* replaced by 1546275796.
tuplehash(key) ==
    With(TupleLane(_PyHASH_XXPRIME_5, key[1]),
         LAMBDA first :
         With(TupleLane(first, key[2]),
              LAMBDA second :
              With(Add64(second,
                         Xor64(<<2, 0, 0, 0, 0, 0, 0, 0>>,
                               Xor64(_PyHASH_XXPRIME_5,
                                     <<115, 211, 53, 0, 0, 0, 0, 0>>))),
                   LAMBDA acc :
                   IF acc = <<255, 255, 255, 255, 255, 255, 255, 255>>
                   THEN <<212, 75, 42, 92, 0, 0, 0, 0>>
                   ELSE acc)))

\* setobject.c: PySet_MINSIZE, LINEAR_PROBES and PERTURB_SHIFT.
PySet_MINSIZE == 8

LINEAR_PROBES == 9

PERTURB_SHIFT == 5

\* setobject.c, setentry: a key with its hash, the hash being computed once,
\* when the key is added (set_add_key); an unused slot has no key.
setentry(key) == [key |-> key, hash |-> tuplehash(key)]

UnusedEntry == [key |-> None, hash |-> <<0, 0, 0, 0, 0, 0, 0, 0>>]

\* (hash >> (PERTURB_SHIFT * shifts)) & mask, for a mask below 2^15: the
\* bits are within three bytes of the hash.
Perturb(hash, shifts, mask) ==
    LET k == PERTURB_SHIFT * shifts
    IN  ((Byte(hash, (k \div 8) + 1) + 256 * Byte(hash, (k \div 8) + 2)
          + 65536 * Byte(hash, (k \div 8) + 3)) \div (2 ^ (k % 8)))
        % (mask + 1)

\* A table of the given number of slots, all of them unused.
EmptyTable(size) == SubSeq([k \in 1..size |-> UnusedEntry], 1, size)

\* setobject.c, the probing of set_add_entry and set_insert_clean: the slot
\* (from 0) that holds the key or the first unused slot met; i is the slot
\* at which the linear probes begin, shifts the number of times perturb
\* has been shifted.
RECURSIVE LookKey(_, _, _, _)
LookKey(table, entry, i, shifts) ==
    LET mask == Len(table) - 1
        probes == IF i + LINEAR_PROBES <= mask THEN LINEAR_PROBES ELSE 0
        met == {j \in 0..probes : table[i + j + 1].key \in {None, entry.key}}
    IN  IF met # {}
        THEN i + CHOOSE j \in met : \A k \in met : j <= k
        ELSE LookKey(table, entry,
                     (i * 5 + 1 + Perturb(entry.hash, shifts + 1, mask))
                     % (mask + 1),
                     shifts + 1)

\* setobject.c, set_insert_clean.
set_insert_clean(table, entry) ==
    [table EXCEPT ![LookKey(table, entry,
                            Perturb(entry.hash, 0, Len(table) - 1), 0)
                       + 1] = entry]

\* The loop of set_table_resize over the entries entries[lo..hi] of the old
\* table.
RECURSIVE InsertClean(_, _, _, _)
InsertClean(table, entries, lo, hi) ==
    IF lo > hi THEN table
    ELSE IF lo = hi THEN set_insert_clean(table, entries[lo])
    ELSE With(InsertClean(table, entries, lo, (lo + hi) \div 2),
              LAMBDA first :
              InsertClean(first, entries, (lo + hi) \div 2 + 1, hi))

\* setobject.c, set_table_resize: the new size is the first power of two,
\* from PySet_MINSIZE on, above minused.
RECURSIVE NewSize(_, _)
NewSize(newsize, minused) ==
    IF newsize <= minused THEN NewSize(2 * newsize, minused) ELSE newsize

set_table_resize(table, minused) ==
    With(SelectSeq(table, LAMBDA entry : entry.key # None),
         LAMBDA entries :
         InsertClean(EmptyTable(NewSize(PySet_MINSIZE, minused)), entries, 1,
                     Len(entries)))

\* setobject.c, set_add_entry (nothing is ever removed from the set, so
\* fill is the number of its elements).
set_add_entry(so, entry) ==
    With(LookKey(so.table, entry,
                 Perturb(entry.hash, 0, Len(so.table) - 1), 0),
         LAMBDA slot :
         IF so.table[slot + 1].key = entry.key THEN so
         ELSE With([so.table EXCEPT ![slot + 1] = entry],
                   LAMBDA table :
                   IF (so.fill + 1) * 5 < (Len(table) - 1) * 3
                   THEN [table |-> table, fill |-> so.fill + 1]
                   ELSE [table |-> set_table_resize(table, (so.fill + 1) * 4),
                         fill |-> so.fill + 1]))

\* possible_moves_set.add(...) for entries[lo..hi], one after the other.
RECURSIVE AddAll(_, _, _, _)
AddAll(so, entries, lo, hi) ==
    IF lo > hi THEN so
    ELSE IF lo = hi THEN set_add_entry(so, entries[lo])
    ELSE With(AddAll(so, entries, lo, (lo + hi) \div 2),
              LAMBDA first : AddAll(first, entries, (lo + hi) \div 2 + 1, hi))

\* list(possible_moves_set) of the set to which the cells of keys were
\* added in their order: the keys of the used slots of the table, from the
\* first.
ListOfSet(keys) ==
    With(SubSeq([k \in 1..Len(keys) |-> setentry(keys[k])], 1, Len(keys)),
         LAMBDA entries :
         With(AddAll([table |-> EmptyTable(PySet_MINSIZE), fill |-> 0],
                     entries, 1, Len(entries)).table,
              LAMBDA table :
              LET used == SelectSeq(table, LAMBDA entry : entry.key # None)
              IN  SubSeq([k \in 1..Len(used) |-> used[k].key], 1,
                         Len(used))))

\* The moves of the list that have the given score, and the lists of the
\* scores from the given one down to 0, one after the other.
RECURSIVE ByScoreFrom(_, _, _)
ByScoreFrom(b, moves, score) ==
    IF score < 0 THEN <<>>
    ELSE SelectSeq(moves,
                   LAMBDA m : _heuristic_score_move_sim(b, m[1], m[2]) = score)
         \o ByScoreFrom(b, moves, score - 1)

\* move_scores.sort(key=score, reverse=True): a stable sort, so the cells
\* of equal score keep the order of the list; a score is at most 8.
SortByScore(b, moves) == ByScoreFrom(b, moves, 8)

\* Lines 416-430 and 506-521: the cells is_valid_move is asked about, in
\* the order of the loops: around every occupied cell, the empty cells on
\* the board; the centre when the board is empty.
AdjacentCells(b) ==
    LET occupied_cells ==
            SelectSeq([k \in 1..(b.size * b.size) |->
                          <<(k - 1) \div b.size, (k - 1) % b.size>>],
                      LAMBDA p : GridAt(b, p[1], p[2]) # EMPTY)
        around == [k \in 1..(9 * Len(occupied_cells)) |->
                      LET occ == occupied_cells[((k - 1) \div 9) + 1]
                          dr == (((k - 1) % 9) \div 3) - 1
                          dc == ((k - 1) % 3) - 1
                      IN  <<occ[1] + dr, occ[2] + dc>>]
    IN  IF occupied_cells = <<>>
        THEN << <<b.size \div 2, b.size \div 2>> >>
        ELSE SelectSeq(around,
                       LAMBDA p : /\ is_within_bounds(b, p[1], p[2])
                                  /\ GridAt(b, p[1], p[2]) = EMPTY)

\* Lines 415-432 and 505-523: candidate_moves and the board as the calls of
\* is_valid_move leave it.
CandidateMoves(b, player, move_count) ==
    With(ValidMoves(b, AdjacentCells(b), 1, Len(AdjacentCells(b)), player,
                    move_count),
         LAMBDA vm :
         [moves |-> ListOfSet(vm.valid),
          board |-> vm.board])

\* AIHard._get_ordered_adjacent_moves (lines 413-440).
_get_ordered_adjacent_moves(b, player, move_count) ==
    With(CandidateMoves(b, player, move_count),
         LAMBDA cm :
         [moves |-> SortByScore(cm.board, cm.moves), board |-> cm.board])

\* Lines 533-536 and 542-545: a stone is put on (r, c), check_win is asked
\* for its colour (last_move stays where it is) and the stone is taken
\* back.
ProbeStone(b, r, c, stone) ==
    LET bt == SetCell(b, r, c, stone)
    IN  [ret |-> check_win(bt, stone).won, board |-> SetCell(bt, r, c, EMPTY)]

\* The loops of lines 531-537 and 540-546 over moves[lo..hi]: the first
\* candidate on which the stone wins.
RECURSIVE ImmediateMove(_, _, _, _, _)
ImmediateMove(b, moves, lo, hi, stone) ==
    IF lo > hi
    THEN [ret |-> None, board |-> b]
    ELSE IF lo = hi
    THEN With(ProbeStone(b, moves[lo][1], moves[lo][2], stone),
              LAMBDA t :
              [ret |-> IF t.ret THEN moves[lo] ELSE None, board |-> t.board])
    ELSE With(ImmediateMove(b, moves, lo, (lo + hi) \div 2, stone),
              LAMBDA first :
              IF first.ret # None THEN first
              ELSE ImmediateMove(first.board, moves, (lo + hi) \div 2 + 1, hi,
                                 stone))

\* Lines 378-380, 569-570 and 594-595: the simulated move.
DoMove(b, r, c, stone) ==
    [SetCell(b, r, c, stone) EXCEPT !.last_move = <<r, c>>]

\* Lines 387-388, 576-577 and 601-602: the simulated move is taken back.
UndoMove(b, r, c, original_last_move) ==
    [SetCell(b, r, c, EMPTY) EXCEPT !.last_move = original_last_move]

\* self.transposition_table[key] = entry
TableStore(table, key, entry) ==
    [h \in DOMAIN table \cup {key} |-> IF h = key THEN entry ELSE table[h]]

\* A slip in lines 572-573 and 597-598: the hash of the node is passed on
\* as it is.
next_hash_stale(current_board_hash, r, c, current_player_sim) ==
    current_board_hash

\* Lines 572-573 and 597-598: the hash of the position after the move.
next_hash(current_board_hash, r, c, current_player_sim) ==
    Xor(current_board_hash,
        zobrist_table(r, c, ZOBRIST_PLAYERS(current_player_sim)))

\* The call of _minimax on board b with the hash h, kept in hashed.
Hashed(a, b, h) ==
    [a EXCEPT !.hashed = @ \cup {[grid |-> b.grid, hash |-> h]}]

RECURSIVE _minimax(_, _, _, _, _, _, _, _)
RECURSIVE MinimaxLoop(_, _, _, _, _, _, _, _, _)

\* The loops of lines 568-581 and 593-606 over moves[lo..hi].  st holds
\* max_eval or min_eval (eval), alpha, beta, the board, the strategy object
\* and whether the loop has been left by a cut-off.
MinimaxLoop(st, moves, lo, hi, depth, maximizing_player, move_count, current_board_hash, original_last_move) ==
    IF st.cut \/ lo > hi THEN st
    ELSE IF lo < hi
    THEN MinimaxLoop(MinimaxLoop(st, moves, lo, (lo + hi) \div 2, depth,
                                 maximizing_player, move_count,
                                 current_board_hash, original_last_move),
                     moves, (lo + hi) \div 2 + 1, hi, depth,
                     maximizing_player, move_count, current_board_hash,
                     original_last_move)
    ELSE LET r == moves[lo][1]
             c == moves[lo][2]
             current_player_sim ==
                 IF maximizing_player THEN st.ai.player ELSE st.ai.opponent
             next == DoMove(st.board, r, c, current_player_sim)
             h == next_hash(current_board_hash, r, c, current_player_sim)
         IN  With(_minimax(Hashed(st.ai, next, h), next,
                           depth - 1, st.alpha, st.beta, ~maximizing_player,
                           move_count + 1, h),
                  LAMBDA res :
                  LET alpha == IF maximizing_player
                               THEN Max(st.alpha, res.score) ELSE st.alpha
                      beta == IF maximizing_player THEN st.beta
                              ELSE Min(st.beta, res.score)
                  IN  [eval |-> IF maximizing_player
                                THEN Max(st.eval, res.score)
                                ELSE Min(st.eval, res.score),
                       alpha |-> alpha,
                       beta |-> beta,
                       board |-> UndoMove(res.board, r, c, original_last_move),
                       ai |-> res.ai,
                       cut |-> beta <= alpha])

\* AIHard._minimax (lines 458-615): the score, the board and the strategy
\* object (its transposition table) as the call leaves them.
_minimax(a, b, depth, original_alpha, original_beta, maximizing_player, move_count, current_board_hash) ==
    LET table == a.transposition_table
        hit == /\ current_board_hash \in DOMAIN table
               /\ table[current_board_hash][2] >= depth
        tt_score == table[current_board_hash][1]
        tt_flag == table[current_board_hash][3]
        alpha == IF hit /\ tt_flag = "lowerbound" /\ tt_score > original_alpha
                 THEN tt_score ELSE original_alpha
        beta == IF hit /\ tt_flag = "upperbound" /\ tt_score < original_beta
                THEN tt_score ELSE original_beta
        current_player_sim == IF maximizing_player THEN a.player ELSE a.opponent
        opponent_sim == IF maximizing_player THEN a.opponent ELSE a.player
        Return(score, bb, aa) == [score |-> score, board |-> bb, ai |-> aa]
        \* The return of line 492 or 493, kept in win_returns.
        ReturnWin(score) ==
            Return(score, b,
                   [a EXCEPT !.win_returns =
                       @ \cup {[last_move |-> b.last_move,
                                stone |-> GridAt(b, b.last_move[1],
                                                 b.last_move[2]),
                                depth |-> depth,
                                maximizing_player |-> maximizing_player,
                                score |-> score]}])
        \* Lines 563-567 and 591-592: max_eval or min_eval before the loop
        \* over the ordered moves; the node is kept in searched.
        Start(bb, candidate_moves, ordered_possible_moves) ==
            [eval |-> IF maximizing_player THEN -Inf ELSE Inf,
             alpha |-> alpha, beta |-> beta,
             board |-> bb,
             ai |-> [a EXCEPT !.searched =
                        @ \cup {[board |-> bb,
                                 maximizing_player |-> maximizing_player,
                                 candidate_moves |->
                                     Elements(candidate_moves),
                                 ordered_possible_moves |->
                                     Elements(ordered_possible_moves)]}],
             cut |-> FALSE]
        \* Lines 582-590 and 607-615: the entry stored after the loop.
        Store(loop) ==
            LET flag ==
                    IF maximizing_player
                    THEN IF loop.eval <= original_alpha THEN "upperbound"
                         ELSE IF loop.eval >= loop.beta THEN "lowerbound"
                         ELSE "exact"
                    ELSE IF loop.eval <= loop.alpha THEN "upperbound"
                         ELSE IF loop.eval >= original_beta
                         THEN "lowerbound"
                         ELSE "exact"
            IN  Return(loop.eval, loop.board,
                       [loop.ai EXCEPT !.transposition_table =
                           TableStore(@, current_board_hash,
                                      <<loop.eval, depth, flag>>)])
        \* Lines 528-560: the immediate win, else the immediate block, else
        \* the candidates ordered by the heuristic.
        Ordering(bb, candidate_moves) ==
            With(ImmediateMove(bb, candidate_moves, 1, Len(candidate_moves),
                               current_player_sim),
                 LAMBDA win :
                 IF win.ret # None
                 THEN [board |-> win.board, moves |-> <<win.ret>>]
                 ELSE With(ImmediateMove(win.board, candidate_moves, 1,
                                         Len(candidate_moves), opponent_sim),
                           LAMBDA block :
                           [board |-> block.board,
                            moves |-> IF block.ret # None THEN <<block.ret>>
                                      ELSE SortByScore(block.board,
                                                       candidate_moves)]))
        \* Lines 505-560: candidate_moves, ordered_possible_moves and the
        \* board as the calls of is_valid_move and the probes leave it.
        Moves ==
            With(CandidateMoves(b, current_player_sim, move_count),
                 LAMBDA cm :
                 IF cm.moves = <<>>
                 THEN [candidate_moves |-> <<>>, board |-> cm.board,
                       moves |-> <<>>]
                 ELSE With(Ordering(cm.board, cm.moves),
                           LAMBDA ordered :
                           [candidate_moves |-> cm.moves,
                            board |-> ordered.board,
                            moves |-> ordered.moves]))
        \* Lines 468-502: one of the returns before the search applies.
        returns_early ==
            \/ hit /\ tt_flag = "exact"
            \/ hit /\ alpha >= beta
            \/ check_win(b, current_player_sim).won
            \/ check_win(b, opponent_sim).won
            \/ get_empty_cells(b) = <<>>
            \/ depth <= 0
        \* Lines 524-615: the static evaluation if there is no candidate,
        \* else the loop over the ordered moves and the store.
        Search(m) ==
            IF m.candidate_moves = <<>>
            THEN Return(_evaluate_board(a, m.board), m.board, a)
            ELSE With(MinimaxLoop(Start(m.board, m.candidate_moves, m.moves),
                                  m.moves, 1, Len(m.moves), depth,
                                  maximizing_player, move_count,
                                  current_board_hash, m.board.last_move),
                      LAMBDA loop : Store(loop))
    IN  IF ~returns_early THEN Search(Moves)
        ELSE IF hit /\ tt_flag = "exact"
        THEN Return(tt_score, b,
                    [a EXCEPT !.exact_returns =
                        @ \cup {[board |-> b, depth |-> depth,
                                 maximizing_player |-> maximizing_player,
                                 move_count |-> move_count,
                                 tt_score |-> tt_score,
                                 tt_depth |-> table[current_board_hash][2]]}])
        ELSE IF hit /\ alpha >= beta THEN Return(tt_score, b, a)
        ELSE IF check_win(b, current_player_sim).won
        THEN ReturnWin(PATTERN_SCORES.p_win + depth)
        ELSE IF check_win(b, opponent_sim).won
        THEN ReturnWin(PATTERN_SCORES.o_win - depth)
        ELSE IF get_empty_cells(b) = <<>> THEN Return(0, b, a)
        ELSE Return(_evaluate_board(a, b), b, a)

\* The clock of find_move.  time.time() is read before every root move and
\* after every depth; a clock is the number of readings that still find
\* the time limit not exceeded, Unlimited if none ever finds it exceeded.
\* Time does not run backwards: after a reading that finds the limit
\* exceeded every later one does.
Unlimited == -1

\* A slip in lines 373-374 and 403-404: the elapsed time is never compared
\* with the limit.
Exceeded_never(clock) == FALSE

Exceeded(clock) == clock = 0

Tick(clock) == IF clock > 0 THEN clock - 1 ELSE clock

\* A slip in lines 299-308: the pre-check for the player's own win finds
\* nothing.
PreCheckWin_none(a, b, cells, lo, hi) ==
    [ret |-> None, board |-> b]

\* Lines 299-308: the first of cells[lo..hi] on which the player wins.
RECURSIVE PreCheckWin(_, _, _, _, _)
PreCheckWin(a, b, cells, lo, hi) ==
    IF lo > hi
    THEN [ret |-> None, board |-> b]
    ELSE IF lo = hi
    THEN With(TryStone(b, cells[lo][1], cells[lo][2], a.player),
              LAMBDA t :
              [ret |-> IF t.ret THEN cells[lo] ELSE None, board |-> t.board])
    ELSE With(PreCheckWin(a, b, cells, lo, (lo + hi) \div 2),
              LAMBDA first :
              IF first.ret # None THEN first
              ELSE PreCheckWin(a, first.board, cells, (lo + hi) \div 2 + 1, hi))

\* Lines 315-328: the first of cells[lo..hi] on which the opponent would
\* win and which is a valid move.
RECURSIVE PreCheckBlock(_, _, _, _, _, _)
PreCheckBlock(a, b, cells, lo, hi, move_count) ==
    IF lo > hi
    THEN [ret |-> None, board |-> b]
    ELSE IF lo = hi
    THEN With(TryStone(b, cells[lo][1], cells[lo][2], a.opponent),
              LAMBDA t :
              IF ~t.ret THEN [ret |-> None, board |-> t.board]
              ELSE With(is_valid_move(t.board, cells[lo][1], cells[lo][2],
                                      a.player, move_count),
                        LAMBDA v :
                        [ret |-> IF v.ret THEN cells[lo] ELSE None,
                         board |-> v.board]))
    ELSE With(PreCheckBlock(a, b, cells, lo, (lo + hi) \div 2, move_count),
              LAMBDA first :
              IF first.ret # None THEN first
              ELSE PreCheckBlock(a, first.board, cells, (lo + hi) \div 2 + 1,
                                 hi, move_count))

\* Lines 370-395: the loop over the root moves moves[lo..hi].  st holds
\* current_best_score (score), current_best_move_this_depth (move), alpha,
\* the board, the strategy object, the clock and whether the loop has been
\* left because the time limit was exceeded.
RECURSIVE RootLoop(_, _, _, _, _, _)
RootLoop(st, moves, lo, hi, current_depth, move_count) ==
    IF st.timeout \/ lo > hi THEN st
    ELSE IF lo < hi
    THEN RootLoop(RootLoop(st, moves, lo, (lo + hi) \div 2, current_depth,
                           move_count),
                  moves, (lo + hi) \div 2 + 1, hi, current_depth, move_count)
    ELSE LET r == moves[lo][1]
             c == moves[lo][2]
             move_hash_change ==
                 zobrist_table(r, c, ZOBRIST_PLAYERS(st.ai.player))
             a1 == [st.ai EXCEPT !.current_hash = Xor(@, move_hash_change)]
         IN  IF Exceeded(st.clock)
             THEN [st EXCEPT !.timeout = TRUE]
             ELSE With(_minimax(Hashed(a1, DoMove(st.board, r, c,
                                                  st.ai.player),
                                       a1.current_hash),
                                DoMove(st.board, r, c, st.ai.player),
                                current_depth - 1, st.alpha, Inf, FALSE,
                                move_count + 1, a1.current_hash),
                       LAMBDA res :
                       LET better == res.score > st.score
                           score == IF better THEN res.score ELSE st.score
                       IN  [timeout |-> FALSE,
                            score |-> score,
                            move |-> IF better THEN moves[lo] ELSE st.move,
                            alpha |-> Max(st.alpha, score),
                            board |-> UndoMove(res.board, r, c,
                                               st.board.last_move),
                            ai |-> [res.ai EXCEPT
                                       !.current_hash =
                                           Xor(@, move_hash_change)],
                            clock |-> Tick(st.clock)])

\* Lines 354-406: one depth of the iterative deepening.  st holds
\* best_move_so_far (ret), the board, the strategy object, the clock and
\* whether the loop over the depths has been left.
DepthStep(st, move_count, current_depth) ==
    LET Roots(om) ==
            IF om.moves = <<>>
            THEN [st EXCEPT !.board = om.board, !.left = TRUE]
            ELSE With(RootLoop([timeout |-> FALSE, score |-> -Inf,
                                move |-> None, alpha |-> -Inf,
                                board |-> om.board, ai |-> st.ai,
                                clock |-> st.clock],
                               om.moves, 1, Len(om.moves), current_depth,
                               move_count),
                      LAMBDA root :
                      LET best == IF root.move # None THEN root.move
                                  ELSE st.ret
                      IN  IF root.timeout
                          THEN [ret |-> st.ret, board |-> root.board,
                                ai |-> root.ai, clock |-> root.clock,
                                left |-> TRUE]
                          ELSE [ret |-> best, board |-> root.board,
                                ai |-> root.ai, clock |-> Tick(root.clock),
                                left |-> Exceeded(root.clock)])
    IN  Roots(_get_ordered_adjacent_moves(st.board, st.ai.player, move_count))

\* Lines 354-406: the iterative deepening over the depths lo..hi.
RECURSIVE DepthLoop(_, _, _, _)
DepthLoop(st, move_count, lo, hi) ==
    IF lo > hi \/ st.left THEN st
    ELSE IF lo = hi THEN DepthStep(st, move_count, lo)
    ELSE DepthLoop(DepthLoop(st, move_count, lo, (lo + hi) \div 2),
                   move_count, (lo + hi) \div 2 + 1, hi)

\* AIHard.find_move (lines 283-410).
AIHard_find_move(a, b, move_count, clock) ==
    LET a1 == [a EXCEPT !.transposition_table = <<>>,
                        !.current_hash = _calculate_board_hash(b),
                        !.exact_returns = {},
                        !.win_returns = {},
                        !.searched = {},
                        !.hashed = {}]
        empty_cells == get_empty_cells(b)
        \* Lines 327-410: the move that blocks the opponent's win, else the
        \* search.
        Search(block, valid_empty_cells) ==
            IF block.ret # None
            THEN [rets |-> {block.ret}, board |-> block.board, ai |-> a1]
            ELSE With(DepthLoop([ret |-> valid_empty_cells[1],
                                 board |-> block.board,
                                 ai |-> a1, clock |-> clock,
                                 left |-> FALSE],
                                move_count, 1, a1.max_depth),
                      LAMBDA search :
                      [rets |-> {search.ret}, board |-> search.board,
                       ai |-> search.ai])
        \* Lines 306-326: the winning move, else the pre-check for the
        \* opponent's win.
        Block(win, valid_empty_cells) ==
            IF win.ret # None
            THEN [rets |-> {win.ret}, board |-> win.board, ai |-> a1]
            ELSE Search(PreCheckBlock(a1, win.board, valid_empty_cells, 1,
                                      Len(valid_empty_cells), move_count),
                        valid_empty_cells)
        \* Lines 292-308, with the board as the list comprehension of line
        \* 291 leaves it.
        Checks(vm) ==
            IF vm.valid = <<>>
            THEN [rets |-> {None}, board |-> vm.board, ai |-> a1]
            ELSE Block(PreCheckWin(a1, vm.board, vm.valid, 1, Len(vm.valid)),
                       vm.valid)
    IN  Checks(ValidMoves(b, empty_cells, 1, Len(empty_cells), a.player,
                          move_count))

(***************************************************************************)
(* The rule engine as a state machine: one action per method of Board.     *)
(* call is the last call made: its arguments, what it returned.            *)
(***************************************************************************)
NoCall ==
    [op |-> "none", row |-> 0, col |-> 0, player |-> EMPTY, move_count |-> 0,
     ret |-> FALSE, info |-> None]

\* No strategy object has been created (ai.py is not in play).
NoAI == [kind |-> "none"]

\* No Game object has been created (game.py is not in play).
NoGame == [kind |-> "none"]

\* place_stone(row, col, player, move_count), for <<row, col, player>> in In.
PlaceStone(In, MCs) ==
    \E i \in In, mc \in MCs :
        /\ Stones(board) < MaxStones
        /\ LET res == place_stone(board, i[1], i[2], i[3], mc)
           IN  /\ board' = res.board
               /\ call' = [op |-> "place_stone", row |-> i[1], col |-> i[2],
                           player |-> i[3], move_count |-> mc,
                           ret |-> res.ret, info |-> None]
               /\ UNCHANGED <<ai, game>>

IsValidMove(In, MCs) ==
    \E i \in In, mc \in MCs :
        LET res == is_valid_move(board, i[1], i[2], i[3], mc)
        IN  /\ board' = res.board
            /\ call' = [op |-> "is_valid_move", row |-> i[1], col |-> i[2],
                        player |-> i[3], move_count |-> mc,
                        ret |-> res.ret, info |-> None]
            /\ UNCHANGED <<ai, game>>

\* is_forbidden(r, c) "assumes the check is for an empty cell within bounds".
IsForbidden(In) ==
    \E i \in In :
        /\ is_within_bounds(board, i[1], i[2])
        /\ is_empty(board, i[1], i[2])
        /\ LET res == is_forbidden(board, i[1], i[2])
           IN  /\ board' = res.board
               /\ call' = [op |-> "is_forbidden", row |-> i[1], col |-> i[2],
                           player |-> BLACK, move_count |-> 0,
                           ret |-> res.ret, info |-> None]
               /\ UNCHANGED <<ai, game>>

\* Board.print_board (lines 238-265): the board is printed, and the marker
\* of the forbidden check, if there is one, is cleared.
PrintBoard ==
    /\ board.forbidden_checked_pos # None
    /\ board' = [board EXCEPT !.forbidden_checked_pos = None]
    /\ UNCHANGED <<call, ai, game>>

CheckWin ==
    \E p \in Players :
        LET res == check_win(board, p)
        IN  /\ board' = board
            /\ call' = [op |-> "check_win", row |-> 0, col |-> 0,
                        player |-> p, move_count |-> 0,
                        ret |-> res.won, info |-> res.info]
            /\ UNCHANGED <<ai, game>>

\* game.py line 912: find_move is given len(self.move_history), the number
\* of stones on the board.
FindMoveCall(a, move_count, move) ==
    [op |-> "find_move", row |-> 0, col |-> 0, player |-> a.player,
     move_count |-> move_count, ret |-> move # None, info |-> move]

FindMoveEasy ==
    /\ ai.kind = "easy"
    /\ \E res \in {AIEasy_find_move(ai, board, Stones(board))} :
           \E move \in res.rets :
               /\ board' = res.board
               /\ call' = FindMoveCall(ai, Stones(board), move)
               /\ UNCHANGED <<ai, game>>

FindMoveNormal ==
    /\ ai.kind = "normal"
    /\ \E res \in {AINormal_find_move(ai, board, Stones(board))} :
           \E move \in res.rets :
               /\ board' = res.board
               /\ call' = FindMoveCall(ai, Stones(board), move)
               /\ UNCHANGED <<ai, game>>

FindMoveHard(clocks) ==
    /\ ai.kind = "hard"
    /\ \E clock \in clocks :
           \E res \in {AIHard_find_move(ai, board, Stones(board), clock)} :
               \E move \in res.rets :
                   /\ board' = res.board
                   /\ call' = FindMoveCall(ai, Stones(board), move)
                   /\ ai' = res.ai
                   /\ UNCHANGED game

(***************************************************************************)
(* Spec: a 9 x 9 board with win_length 3 (both are options of              *)
(* settings.py).  Black stones go on a cross around the centre, White      *)
(* stone on its middle cell.                                                *)
(***************************************************************************)
CrossInputs ==
    {<<4, 2, BLACK>>, <<4, 3, BLACK>>, <<4, 4, BLACK>>, <<4, 5, BLACK>>,
     <<2, 4, BLACK>>, <<3, 4, BLACK>>, <<5, 4, BLACK>>,
     <<4, 4, WHITE>>}

Init ==
    /\ board = Board(9, 3)
    /\ call = NoCall
    /\ ai = NoAI
    /\ game = NoGame

Next ==
    \/ PlaceStone(CrossInputs, LateMoveCounts)
    \/ IsValidMove(CrossInputs, LateMoveCounts)
    \/ IsForbidden(CrossInputs)
    \/ CheckWin
    \/ PrintBoard

Spec == Init /\ [][Next]_vars

(***************************************************************************)
(* SpecFours: win_length 5.  On the 15 x 15 board Black builds the shape   *)
(* of the four-four test of board.py (lines 530-547) around (1, 1), with   *)
(* White able to close the row at (1, 4); on the 9 x 9 board White builds  *)
(* the two threes of that shape.                                           *)
(***************************************************************************)
FoursInputs(b) ==
    IF b.size = 15
    THEN {<<1, 2, BLACK>>, <<1, 3, BLACK>>, <<1, 4, BLACK>>,
          <<2, 1, BLACK>>, <<3, 1, BLACK>>, <<4, 1, BLACK>>,
          <<1, 1, BLACK>>, <<1, 4, WHITE>>}
    ELSE {<<1, 2, WHITE>>, <<1, 3, WHITE>>, <<2, 1, WHITE>>, <<3, 1, WHITE>>,
          <<1, 1, WHITE>>}

\* The checks are asked about (1, 1), for either colour.
FoursQueries == {<<1, 1, BLACK>>, <<1, 1, WHITE>>}

InitFours ==
    /\ board \in {Board(15, 5), Board(9, 5)}
    /\ call = NoCall
    /\ ai = NoAI
    /\ game = NoGame

NextFours ==
    \/ PlaceStone(FoursInputs(board), LateMoveCounts)
    \/ IsValidMove(FoursQueries, LateMoveCounts)
    \/ IsForbidden(FoursQueries)
    \/ PrintBoard

SpecFours == InitFours /\ [][NextFours]_vars

(***************************************************************************)
(* SpecThree: the three-three test of board.py (lines 511-525) on the      *)
(* 15 x 15 board, win_length 5: Black on (1, 2), (1, 3), (2, 2), (3, 2),   *)
(* the candidate (2, 3), White in the corner and far from the shape.       *)
(***************************************************************************)
ThreeBlack == {<<1, 2>>, <<1, 3>>, <<2, 2>>, <<3, 2>>}

ThreeInputs ==
    {<<p[1], p[2], BLACK>> : p \in ThreeBlack}
        \cup {<<2, 3, BLACK>>, <<0, 0, WHITE>>, <<10, 10, WHITE>>}

ThreeQueries == {<<2, 3, BLACK>>}

InitThree ==
    /\ board = Board(15, 5)
    /\ call = NoCall
    /\ ai = NoAI
    /\ game = NoGame

NextThree ==
    \/ PlaceStone(ThreeInputs, LateMoveCounts)
    \/ IsValidMove(ThreeQueries, MoveCounts)
    \/ IsForbidden(ThreeQueries)

SpecThree == InitThree /\ [][NextThree]_vars

(***************************************************************************)
(* SpecOpening: the first stones on boards of odd size, with every         *)
(* move_count of MoveCounts.  Stones go on the centre and on the two cells *)
(* of the second move; is_valid_move is asked about these and about cells  *)
(* at distance 1, 2 and 3 from the centre (the last one only where the     *)
(* board has it).                                                          *)
(***************************************************************************)
OpeningOffsets == {<<0, 0>>, <<-1, 0>>, <<-1, 1>>}

OpeningQueryOffsets == OpeningOffsets \cup {<<1, 0>>, <<2, -2>>, <<0, 3>>}

OpeningInputs(b, offsets) ==
    {<<b.center[1] + o[1], b.center[2] + o[2], p>> : o \in offsets, p \in Players}

InitOpening ==
    /\ board \in {Board(5, 3), Board(7, 5), Board(9, 5)}
    /\ call = NoCall
    /\ ai = NoAI
    /\ game = NoGame

NextOpening ==
    \/ PlaceStone(OpeningInputs(board, OpeningOffsets), MoveCounts)
    \/ IsValidMove(OpeningInputs(board, OpeningQueryOffsets), MoveCounts)

SpecOpening == InitOpening /\ [][NextOpening]_vars

(***************************************************************************)
(* SpecWin: stones that complete runs.  On the 15 x 15 board (win_length   *)
(* 5) the win test of board.py (lines 549-566): Black on column 7, White   *)
(* beside it.  On the 9 x 9 board (win_length 3) Black on a cross, so that *)
(* two directions qualify at once.  On the 11 x 11 board (win_length 3)    *)
(* White on an anti-diagonal, so that a run of four arises.                *)
(***************************************************************************)
WinInputs(b) ==
    IF b.size = 15
    THEN {<<7, 7, BLACK>>, <<6, 7, BLACK>>, <<5, 7, BLACK>>, <<4, 7, BLACK>>,
          <<3, 7, BLACK>>, <<8, 8, WHITE>>, <<8, 7, WHITE>>}
    ELSE IF b.size = 9
    THEN {<<4, 3, BLACK>>, <<4, 5, BLACK>>, <<3, 4, BLACK>>, <<5, 4, BLACK>>,
          <<4, 4, BLACK>>}
    ELSE {<<3, 7, WHITE>>, <<4, 6, WHITE>>, <<5, 5, WHITE>>, <<6, 4, WHITE>>}

InitWin ==
    /\ board \in {Board(15, 5), Board(9, 3), Board(11, 3)}
    /\ call = NoCall
    /\ ai = NoAI
    /\ game = NoGame

NextWin ==
    \/ PlaceStone(WinInputs(board), MoveCounts)
    \/ CheckWin

SpecWin == InitWin /\ [][NextWin]_vars

(***************************************************************************)
(* SpecAI: a game of a person against a strategy object, as game.py plays  *)
(* it on a 7 x 7 board with win_length 3: Black moves first, the players   *)
(* alternate, the strategy is asked for a move on its turn with the number *)
(* of stones as move_count, and the move it returns is made.               *)
(***************************************************************************)
\* game.py lines 83, 698 and 809-813 (_switch_player): whose turn it is.
current_player(b) == IF Stones(b) % 2 = 0 THEN BLACK ELSE WHITE

\* game.py lines 684-694: the game is over once a player has won or the
\* board is full.
game_over(b) ==
    \/ check_win(b, BLACK).won
    \/ check_win(b, WHITE).won
    \/ get_empty_cells(b) = <<>>

\* The cells the person clicks on: the centre, the cell to its right and
\* the cell below that.
HumanCells(b) ==
    LET center == b.size \div 2
    IN  {<<center, center>>, <<center, center + 1>>,
         <<center + 1, center + 1>>}

Clocks == {Unlimited} \cup 0..MaxClock

\* game.py lines 665-666: _make_move(row, col) of a click of the person.
HumanMove ==
    /\ ai.player # current_player(board)
    /\ ~game_over(board)
    /\ Stones(board) < MaxGameStones
    /\ \E cell \in HumanCells(board) :
           LET res == place_stone(board, cell[1], cell[2],
                                  current_player(board), Stones(board))
           IN  /\ board' = res.board
               /\ call' = [op |-> "place_stone", row |-> cell[1],
                           col |-> cell[2], player |-> current_player(board),
                           move_count |-> Stones(board), ret |-> res.ret,
                           info |-> None]
               /\ UNCHANGED <<ai, game>>

\* game.py lines 916-918 and 665-666: the move find_move returned is made.
MakeMove ==
    /\ call.op = "find_move"
    /\ call.info # None
    /\ Stones(board) < MaxGameStones
    /\ LET res == place_stone(board, call.info[1], call.info[2], ai.player,
                              Stones(board))
       IN  /\ board' = res.board
           /\ call' = [op |-> "place_stone", row |-> call.info[1],
                       col |-> call.info[2], player |-> ai.player,
                       move_count |-> Stones(board), ret |-> res.ret,
                       info |-> None]
           /\ UNCHANGED <<ai, game>>

\* game.py lines 899-913: the strategy is asked on its turn, once.
AITurn ==
    /\ ai.player = current_player(board)
    /\ ~game_over(board)
    /\ call.op # "find_move"

InitAI ==
    /\ board = Board(7, 3)
    /\ call = NoCall
    /\ game = NoGame
    /\ ai \in {create_ai(difficulty, player) :
                  difficulty \in {"easy", "normal", "hard"}, player \in Players}

NextAI ==
    \/ HumanMove
    \/ MakeMove
    \/ AITurn /\ FindMoveEasy
    \/ AITurn /\ FindMoveNormal
    \/ AITurn /\ FindMoveHard(Clocks)

SpecAI == InitAI /\ [][NextAI]_vars

(***************************************************************************)
(* game.py: the Game controller.  game holds the fields of Game that the   *)
(* rules of play read and write: game_over, winner, current_player and     *)
(* move_history, the two fields of the history viewer, display_move_index  *)
(* and is_history_mode, needs_redraw, the flag that makes draw() paint the *)
(* board again, research_mode_enabled with the field checked of its        *)
(* checkbox (research_mode_checkbox), and ai_starts, the flag of           *)
(* self.settings that reset_game reads.  The scores that Research Mode     *)
(* shows (evaluation_cache) are not part of game: no rule of play reads    *)
(* them.  The strategy object of the AI side is ai; the other side is      *)
(* played by a human, so settings.game_mode is game_mode(ai).  The clocks  *)
(* of the telop, the popups and the animations are not part of game: what  *)
(* update() does because one of them is still running is an input.         *)
(***************************************************************************)
\* constants.py lines 36-37.
PLAYER_HUMAN == 0
PLAYER_AI == 1

\* settings.game_mode of a game of a human against the strategy object a:
\* the pair of the player types of Black and White (settings.py lines 60-66,
\* get_player_types).
game_mode(a) ==
    IF a.player = BLACK THEN <<PLAYER_AI, PLAYER_HUMAN>>
    ELSE <<PLAYER_HUMAN, PLAYER_AI>>

\* The largest number of cells the loaded histories leave empty.
MaxHoles == 3

\* Game.reset_game lines 89-97: one entry of a loaded history is put on the
\* grid directly, the colour taken from its index in the loaded list.
LoadMove(st, move_history_to_load, i) ==
    LET move == move_history_to_load[i]
        player == IF (i - 1) % 2 = 0 THEN BLACK ELSE WHITE
    IN  IF is_within_bounds(st.board, move[1], move[2])
           /\ is_empty(st.board, move[1], move[2])
        THEN [board |-> [SetCell(st.board, move[1], move[2], player)
                            EXCEPT !.last_move = move],
              move_history |-> Append(st.move_history, move)]
        ELSE st

\* Game.reset_game line 88: the loop over the entries lo..hi of the list.
RECURSIVE LoadHistory(_, _, _, _)
LoadHistory(st, move_history_to_load, lo, hi) ==
    IF lo > hi THEN st
    ELSE IF lo = hi THEN LoadMove(st, move_history_to_load, lo)
    ELSE LET first == LoadHistory(st, move_history_to_load, lo,
                                  (lo + hi) \div 2)
         IN  \* (the first half is worked out before the second is begun)
             CASE Len(first.move_history) >= 0 ->
                 LoadHistory(first, move_history_to_load,
                             (lo + hi) \div 2 + 1, hi)

\* Game.reset_game lines 88-100: the board a saved game is loaded into.
LoadedBoard(size, win_length, move_history_to_load) ==
    LoadHistory([board |-> Board(size, win_length), move_history |-> <<>>],
                move_history_to_load, 1, Len(move_history_to_load)).board

\* Game._draw_stones_and_markers lines 338-342: is_valid_move is called for
\* every empty cell in row-major order, for the player to move.  A call for
\* an empty cell either returns at the opening rules (board.py lines 56-75)
\* and leaves the board as it was, or runs the forbidden check, which takes
\* its stone back, and writes the marker (lines 89 and 96).  So the board
\* after the loop is the board after the call for the last empty cell that
\* the opening rules allow, and the board as it was if there is none.
MarkInvalidCells(g, b, cells) ==
    LET allowed == {k \in 1..Len(cells) :
                       ShukeiAllows(b, cells[k][1], cells[k][2],
                                    Len(g.move_history))}
    IN  IF allowed = {} THEN b
        ELSE With(CHOOSE k \in allowed : \A j \in allowed : j <= k,
                  LAMBDA k :
                  is_valid_move(b, cells[k][1], cells[k][2], g.current_player,
                                Len(g.move_history)).board)

\* Game._draw_stones_and_markers lines 323-348: outside the history viewer
\* the board drawn is the live board, and its empty cells are checked.
_draw_stones_and_markers(g, b) ==
    IF g.is_history_mode THEN b
    ELSE MarkInvalidCells(g, b, get_empty_cells(b))

\* Game.draw lines 1162-1192: the board is painted again if needs_redraw is
\* set, and the flag is cleared.
draw(g, b) ==
    IF g.needs_redraw
    THEN [board |-> _draw_stones_and_markers(g, b),
          game |-> [g EXCEPT !.needs_redraw = FALSE]]
    ELSE [board |-> b, game |-> g]

\* A slip in lines 116-118: the AI-starts setting is never applied.
first_player_black(mode, ai_starts) == BLACK

\* Game.reset_game lines 83 and 116-118: the player to move in a game that
\* starts without a history.
first_player(mode, ai_starts) ==
    IF mode = <<PLAYER_HUMAN, PLAYER_AI>> /\ ai_starts THEN WHITE ELSE BLACK

\* Game.reset_game lines 75-186, before anything is drawn, under the
\* settings board_size, win_length, game_mode and ai_starts.  Research Mode
\* is off (line 148) and its checkbox is made anew, unchecked (line 186;
\* research_mode_checkbox is the field checked of the checkbox).
reset_game_state(size, win_length, mode, ai_starts, move_history_to_load) ==
    LET \* Lines 80-84, 131, 143-144, 148 and 186.
        fresh == [game_over |-> FALSE, winner |-> None,
                  current_player |-> BLACK, move_history |-> <<>>,
                  display_move_index |-> 0, is_history_mode |-> FALSE,
                  needs_redraw |-> TRUE, ai_starts |-> ai_starts,
                  research_mode_enabled |-> FALSE,
                  research_mode_checkbox |-> FALSE]
        \* Lines 99-111, for a history that has put stones on the board.
        Loaded(loaded, current, last_player) ==
            With(check_win(loaded.board, last_player).won,
                 LAMBDA won :
                 [board |-> loaded.board,
                  game |->
                      [game_over |-> won \/ get_empty_cells(loaded.board) = <<>>,
                       winner |-> IF won THEN last_player ELSE None,
                       current_player |-> current,
                       move_history |-> loaded.move_history,
                       display_move_index |-> Len(loaded.move_history),
                       is_history_mode |-> FALSE,
                       needs_redraw |-> TRUE,
                       ai_starts |-> ai_starts,
                       research_mode_enabled |-> FALSE,
                       research_mode_checkbox |-> FALSE]])
    IN  IF move_history_to_load = <<>>
        THEN [board |-> Board(size, win_length),
              game |-> [fresh EXCEPT !.current_player =
                                         first_player(mode, ai_starts)]]
        ELSE With(LoadHistory([board |-> Board(size, win_length),
                               move_history |-> <<>>],
                              move_history_to_load, 1,
                              Len(move_history_to_load)),
                  LAMBDA loaded :
                  IF loaded.move_history = <<>>
                  THEN [board |-> loaded.board, game |-> fresh]
                  ELSE IF Len(loaded.move_history) % 2 = 0
                  THEN Loaded(loaded, BLACK, WHITE)
                  ELSE Loaded(loaded, WHITE, BLACK))

\* Game.reset_game lines 75-204 under the settings board_size, win_length,
\* game_mode and ai_starts: the new state, drawn at once (line 204).
reset_game_settings(size, win_length, mode, ai_starts, move_history_to_load) ==
    With(reset_game_state(size, win_length, mode, ai_starts,
                          move_history_to_load),
         LAMBDA start : draw(start.game, start.board))

\* Game.reset_game lines 75-204 with the settings of a new game that the
\* human starts (settings.py lines 19-20).
reset_game(size, win_length, move_history_to_load) ==
    reset_game_settings(size, win_length, <<PLAYER_HUMAN, PLAYER_AI>>, FALSE,
                        move_history_to_load)

\* A slip in line 668: the move is not entered in move_history.
_make_move_no_history(g, b, row, col) ==
    LET moved == [g EXCEPT !.needs_redraw = TRUE]
    IN  With(place_stone(b, row, col, g.current_player, Len(g.move_history)),
             LAMBDA res :
             IF ~res.ret
             THEN [ret |-> FALSE, board |-> res.board, game |-> moved]
             ELSE IF check_win(res.board, g.current_player).won
             THEN [ret |-> TRUE, board |-> res.board,
                   game |-> [moved EXCEPT !.game_over = TRUE,
                                          !.winner = g.current_player]]
             ELSE IF get_empty_cells(res.board) = <<>>
             THEN [ret |-> TRUE, board |-> res.board,
                   game |-> [moved EXCEPT !.game_over = TRUE,
                                          !.winner = None]]
             ELSE [ret |-> TRUE, board |-> res.board,
                   game |-> [moved EXCEPT !.current_player =
                                 IF g.current_player = BLACK THEN WHITE
                                 ELSE BLACK]])

\* Game._make_move lines 658-698 and 782-788: the stone is placed for the
\* player to move; then a win, a draw, or the turn passes.  Placed or
\* refused, the board is to be painted again (lines 667 and 787).
_make_move(g, b, row, col) ==
    LET moved == [g EXCEPT !.move_history = Append(@, <<row, col>>),
                           !.needs_redraw = TRUE]
    IN  With(place_stone(b, row, col, g.current_player, Len(g.move_history)),
             LAMBDA res :
             IF ~res.ret
             THEN [ret |-> FALSE, board |-> res.board,
                   game |-> [g EXCEPT !.needs_redraw = TRUE]]
             ELSE IF check_win(res.board, g.current_player).won
             THEN [ret |-> TRUE, board |-> res.board,
                   game |-> [moved EXCEPT !.game_over = TRUE,
                                          !.winner = g.current_player]]
             ELSE IF get_empty_cells(res.board) = <<>>
             THEN [ret |-> TRUE, board |-> res.board,
                   game |-> [moved EXCEPT !.game_over = TRUE,
                                          !.winner = None]]
             ELSE [ret |-> TRUE, board |-> res.board,
                   game |-> [moved EXCEPT !.current_player =
                                 IF g.current_player = BLACK THEN WHITE
                                 ELSE BLACK]])

\* Game._evaluate_empty_cells lines 1093-1148: the scores of the empty
\* cells are worked out on copies of the board shown (lines 1100 and 1117)
\* by a strategy object of its own (lines 1082-1091) and kept in
\* evaluation_cache; of the state of the game only needs_redraw is written
\* (line 1148).  evaluation_in_progress (line 1095) is set only within the
\* call.
_evaluate_empty_cells(g) == [g EXCEPT !.needs_redraw = TRUE]

\* Game.update lines 916-929: what the controller does with the answer of
\* find_move.  In Research Mode the scores are worked out again after the
\* move (lines 920-922).
AfterFindMove(g, b, move) ==
    IF move # None
    THEN With(_make_move(g, b, move[1], move[2]),
              LAMBDA made :
              [board |-> made.board,
               game |-> IF made.game.research_mode_enabled
                        THEN _evaluate_empty_cells(made.game)
                        ELSE made.game])
    ELSE IF get_empty_cells(b) = <<>>
    THEN [board |-> b, game |-> [g EXCEPT !.game_over = TRUE,
                                          !.winner = None]]
    ELSE [board |-> b, game |-> g]

\* Game.update lines 890-901: the guard of the AI's turn.
AIToMove ==
    /\ ~game.game_over
    /\ ~game.is_history_mode
    /\ game.current_player = ai.player

\* Game.update lines 833-844 and 908: a popup that is still showing asks
\* for the board to be painted again (popup_updated), and the screen is
\* drawn before the strategy is asked.
BeforeFindMove(g, b, popup_updated) ==
    draw([g EXCEPT !.needs_redraw = @ \/ popup_updated], b)

\* Game.update lines 899-929 with the Easy strategy.
UpdateEasy ==
    /\ AIToMove
    /\ ai.kind = "easy"
    /\ \E popup_updated \in BOOLEAN :
         \E drawn \in {BeforeFindMove(game, board, popup_updated)} :
           \E res \in {AIEasy_find_move(ai, drawn.board,
                                        Len(game.move_history))} :
             \E move \in res.rets :
               \E after \in {AfterFindMove(drawn.game, res.board, move)} :
                   /\ board' = after.board
                   /\ game' = after.game
                   /\ call' = FindMoveCall(ai, Len(game.move_history), move)
                   /\ UNCHANGED ai

\* Game.update lines 899-929 with the Normal strategy.
UpdateNormal ==
    /\ AIToMove
    /\ ai.kind = "normal"
    /\ \E popup_updated \in BOOLEAN :
         \E drawn \in {BeforeFindMove(game, board, popup_updated)} :
           \E res \in {AINormal_find_move(ai, drawn.board,
                                          Len(game.move_history))} :
             \E move \in res.rets :
               \E after \in {AfterFindMove(drawn.game, res.board, move)} :
                   /\ board' = after.board
                   /\ game' = after.game
                   /\ call' = FindMoveCall(ai, Len(game.move_history), move)
                   /\ UNCHANGED ai

\* Game.update lines 899-929 with the Hard strategy.
UpdateHard ==
    /\ AIToMove
    /\ ai.kind = "hard"
    /\ \E popup_updated \in BOOLEAN, clock \in Clocks :
         \E drawn \in {BeforeFindMove(game, board, popup_updated)} :
           \E res \in {AIHard_find_move(ai, drawn.board,
                                        Len(game.move_history), clock)} :
             \E move \in res.rets :
               \E after \in {AfterFindMove(drawn.game, res.board, move)} :
                   /\ board' = after.board
                   /\ game' = after.game
                   /\ call' = FindMoveCall(ai, Len(game.move_history), move)
                   /\ ai' = res.ai

\* Game.update lines 822-896: a call of update() while the telop, a popup
\* or an animation is still running, and the strategy is not asked: the
\* board is to be painted again (lines 831, 844, 858 and 879).
UpdateRedraw ==
    /\ ~game.needs_redraw
    /\ game' = [game EXCEPT !.needs_redraw = TRUE]
    /\ UNCHANGED <<board, call, ai>>

\* main.py line 486: the main loop draws the game screen (Game.draw).
Draw ==
    /\ game.needs_redraw
    /\ \E drawn \in {draw(game, board)} :
           /\ board' = drawn.board
           /\ game' = drawn.game
    /\ UNCHANGED <<call, ai>>

\* A slip in line 589: a click is taken although the game is over.
HumanTurn_after_game_over ==
    /\ ~game.is_history_mode
    /\ game.current_player # ai.player

\* Game.handle_event line 589: the guard of a click on the board.
HumanTurn ==
    /\ ~game.is_history_mode
    /\ game.current_player # ai.player
    /\ ~game.game_over

\* Game.handle_event lines 598-608: the move is made, and if the stone was
\* placed the screen is drawn at once; in Research Mode the scores are
\* then worked out again (lines 605-608).
ClickMove(g, b, row, col) ==
    With(_make_move(g, b, row, col),
         LAMBDA made :
         IF made.ret
         THEN With(draw(made.game, made.board),
                   LAMBDA drawn :
                   [ret |-> TRUE, board |-> drawn.board,
                    game |-> IF drawn.game.research_mode_enabled
                             THEN _evaluate_empty_cells(drawn.game)
                             ELSE drawn.game])
         ELSE made)

\* Game.handle_event lines 575-587 with Checkbox.handle_event (ui.py lines
\* 121-132): a click on the checkbox "Research Mode" turns the checkbox
\* over, Research Mode follows it, the scores are worked out if it is on,
\* and the board is to be painted again.
ResearchModeClicked ==
    /\ \E toggled \in {[game EXCEPT
                           !.research_mode_checkbox = ~@,
                           !.research_mode_enabled =
                               ~game.research_mode_checkbox]} :
           game' = [(IF toggled.research_mode_enabled
                     THEN _evaluate_empty_cells(toggled)
                     ELSE toggled) EXCEPT !.needs_redraw = TRUE]
    /\ UNCHANGED <<board, call, ai>>

\* Game.handle_event lines 589-609: a click of the human on one of cells.
HumanClickOn(cells) ==
    /\ HumanTurn
    /\ \E cell \in cells :
           \E made \in {ClickMove(game, board, cell[1], cell[2])} :
               /\ board' = made.board
               /\ game' = made.game
               /\ call' = [op |-> "place_stone", row |-> cell[1],
                           col |-> cell[2], player |-> game.current_player,
                           move_count |-> Len(game.move_history),
                           ret |-> made.ret, info |-> None]
               /\ UNCHANGED ai

\* Game.handle_event lines 589-609: a click of the human on a cell.
HumanClick == HumanClickOn(Cells(board.size))

(***************************************************************************)
(* SpecEnd: the end of a game on a 9 x 9 board with win_length 3, loaded   *)
(* from a saved history.  The saved games fill the board with pairs of     *)
(* stones of one colour, shifted by two from row to row, except that row 4 *)
(* starts with six Black stones and row 0 with four White ones; up to      *)
(* MaxHoles cells of EndHoleCells are still empty.                          *)
(***************************************************************************)
EndColour(r, c) ==
    IF r = 4 /\ c \in {2, 3} THEN BLACK
    ELSE IF r = 0 /\ c \in {0, 1} THEN WHITE
    ELSE IF (c + 2 * r) % 4 < 2 THEN BLACK ELSE WHITE

EndHoleCells == {<<4, 1>>, <<4, 4>>, <<8, 8>>, <<1, 0>>, <<8, 7>>}

\* The cells of one colour outside holes, in row-major order.
EndCells(colour, holes) ==
    SelectSeq(get_empty_cells(Board(9, 3)),
              LAMBDA p : EndColour(p[1], p[2]) = colour /\ p \notin holes)

\* The saved history: Black and White cells in turn.
EndHistory(holes) ==
    LET blacks == EndCells(BLACK, holes)
        whites == EndCells(WHITE, holes)
    IN  SubSeq([i \in 1..(Len(blacks) + Len(whites)) |->
                   IF i % 2 = 1 THEN blacks[(i + 1) \div 2]
                   ELSE whites[i \div 2]],
               1, Len(blacks) + Len(whites))

\* The sets of holes that leave a history in which the colours alternate.
EndHoles ==
    {holes \in SUBSET EndHoleCells :
        /\ Cardinality(holes) <= MaxHoles
        /\ Len(EndCells(BLACK, holes)) - Len(EndCells(WHITE, holes))
               \in {0, 1}}

InitEnd ==
    /\ ai \in {create_ai(difficulty, player) :
                  difficulty \in {"easy", "normal", "hard"}, player \in Players}
    /\ call = NoCall
    /\ \E holes \in EndHoles :
           \E start \in {reset_game(9, 3, EndHistory(holes))} :
               /\ board = start.board
               /\ game = start.game

NextEnd ==
    \/ HumanClick
    \/ UpdateEasy
    \/ UpdateNormal
    \/ UpdateHard
    \/ UpdateRedraw
    \/ Draw
    \/ ResearchModeClicked

SpecEnd == InitEnd /\ [][NextEnd]_vars

(***************************************************************************)
(* SpecNoMove: find_move called directly (as the test at the end of ai.py  *)
(* calls it) on the boards of the saved games above, a full board among    *)
(* them.                                                                    *)
(***************************************************************************)
InitNoMove ==
    /\ ai \in {create_ai(difficulty, player) :
                  difficulty \in {"easy", "normal", "hard"}, player \in Players}
    /\ call = NoCall
    /\ game = NoGame
    /\ \E holes \in EndHoles :
           board = reset_game(9, 3, EndHistory(holes)).board

\* Nothing has been asked about the position yet.
NotAsked == call.op = "none"

NextNoMove ==
    \/ NotAsked /\ FindMoveEasy
    \/ NotAsked /\ FindMoveNormal
    \/ NotAsked /\ FindMoveHard(Clocks)

SpecNoMove == InitNoMove /\ [][NextNoMove]_vars

(***************************************************************************)
(* SpecBlock: find_move of the Normal and the Hard strategy on 9 x 9       *)
(* boards with win_length 5, loaded from saved games in which the side     *)
(* that has just moved (the attacker) has four stones in a row with both   *)
(* ends empty and the AI (the defender) is to move.  In the scene "plain"  *)
(* the other stones lie apart; in "own_four" the defender has a four of    *)
(* its own on row 7; in "second_four" the attacker has a second four on    *)
(* row 0, closed by the edge of the board.                                  *)
(***************************************************************************)
\* <<row, column, index of the direction>> of the first stone of the four.
BlockLines ==
    {<<2, 1, 1>>, <<5, 4, 1>>,
     <<2, 1, 2>>, <<2, 7, 2>>,
     <<2, 1, 3>>, <<2, 4, 3>>,
     <<2, 4, 4>>, <<2, 7, 4>>}

BlockScenes == {"plain", "own_four", "second_four"}

\* The four stones of a line, from its first stone on.
FourOf(line) ==
    [k \in 1..4 |-> <<line[1] + (k - 1) * DIRECTIONS[line[3]][1],
                      line[2] + (k - 1) * DIRECTIONS[line[3]][2]>>]

\* Stones that lie apart from every line.
FarCells ==
    <<<<8, 0>>, <<8, 2>>, <<8, 4>>, <<8, 6>>, <<8, 8>>, <<0, 0>>, <<0, 2>>,
      <<7, 7>>>>

\* The stones of the attacker and of the defender, before the stones that
\* make the numbers fit the turn.
AttackerStones(line, scene) ==
    FourOf(line) \o (IF scene = "second_four"
                     THEN <<<<0, 5>>, <<0, 6>>, <<0, 7>>, <<0, 8>>>>
                     ELSE <<>>)

DefenderStones(scene) ==
    IF scene = "own_four"
    THEN <<<<7, 1>>, <<7, 2>>, <<7, 3>>, <<7, 4>>>>
    ELSE <<>>

\* The saved game: Black and White stones in turn, Black first; the side
\* with too few stones gets stones of FarCells.
BlockHistory(line, scene, defender) ==
    LET attack == AttackerStones(line, scene)
        defend == DefenderStones(scene)
        \* Black has as many stones as White when Black is to move, one more
        \* when White is.
        black_count == IF defender = BLACK
                       THEN Max(Len(attack), Len(defend))
                       ELSE Max(Len(attack), Len(defend) + 1)
        white_count == IF defender = BLACK THEN black_count
                       ELSE black_count - 1
        attack_count == IF defender = BLACK THEN white_count ELSE black_count
        defend_count == IF defender = BLACK THEN black_count ELSE white_count
        attacker == attack \o SubSeq(FarCells, 1, attack_count - Len(attack))
        defenders == defend \o SubSeq(FarCells, 1, defend_count - Len(defend))
        blacks == IF defender = BLACK THEN defenders ELSE attacker
        whites == IF defender = BLACK THEN attacker ELSE defenders
    IN  [i \in 1..(black_count + white_count) |->
            IF i % 2 = 1 THEN blacks[(i + 1) \div 2] ELSE whites[i \div 2]]

InitBlock ==
    /\ ai \in {create_ai(difficulty, player) :
                  difficulty \in {"normal", "hard"}, player \in Players}
    /\ call = NoCall
    /\ game = NoGame
    /\ \E line \in BlockLines, scene \in BlockScenes :
           board = reset_game(9, 5, BlockHistory(line, scene, ai.player)).board

\* (Both pre-checks of AIHard come before the first reading of the clock.)
NextBlock ==
    \/ NotAsked /\ FindMoveNormal
    \/ NotAsked /\ FindMoveHard({Unlimited})

SpecBlock == InitBlock /\ [][NextBlock]_vars

(***************************************************************************)
(* SpecTime: find_move of the Hard strategy on a 5 x 5 board with          *)
(* win_length 3, in the first moves of a game, under clocks that find the  *)
(* time limit exceeded at the first reading, after up to MaxTimeClock      *)
(* readings, or never.  call also records the clock that the call met.     *)
(***************************************************************************)
MaxTimeClock == 11

TimeClocks == {Unlimited} \cup 0..MaxTimeClock

\* Game._make_move (lines 658-788) from the start of a game to the end of
\* the list: every stone of the list was a valid move of the side to move
\* and did not win.
PlayedByRules(size, win_length, history) ==
    \A i \in 1..Len(history) :
        LET player == IF i % 2 = 1 THEN BLACK ELSE WHITE
            before == LoadedBoard(size, win_length,
                                  SubSeq(history, 1, i - 1))
        IN  /\ is_valid_move(before, history[i][1], history[i][2], player,
                             i - 1).ret
            /\ ~check_win(place_stone(before, history[i][1], history[i][2],
                                      player, i - 1).board, player).won

\* The saved games: every game of up to three stones played by the rules.
TimeHistories ==
    {history \in {<<>>} \cup {<<m1>> : m1 \in Cells(5)}
                 \cup {<<m1, m2>> : m1 \in Cells(5), m2 \in Cells(5)}
                 \cup {<<m1, m2, m3>> : m1 \in Cells(5), m2 \in Cells(5),
                                        m3 \in Cells(5)} :
        PlayedByRules(5, 3, history)}

FindMoveHardTimed ==
    /\ ai.kind = "hard"
    /\ \E clock \in TimeClocks :
           \E res \in {AIHard_find_move(ai, board, Stones(board), clock)} :
               \E move \in res.rets :
                   /\ board' = res.board
                   /\ call' = FindMoveCall(ai, Stones(board), move)
                                  @@ [clock |-> clock]
                   /\ ai' = res.ai
                   /\ UNCHANGED game

InitTime ==
    /\ call = NoCall
    /\ game = NoGame
    /\ \E history \in TimeHistories :
           /\ board = reset_game(5, 3, history).board
           /\ ai = create_ai("hard", IF Len(history) % 2 = 0 THEN BLACK
                                     ELSE WHITE)

NextTime == NotAsked /\ FindMoveHardTimed

SpecTime == InitTime /\ [][NextTime]_vars

(***************************************************************************)
(* Board.find_threats (board.py 347-475): the board is scanned cell by     *)
(* cell, pattern by pattern and direction by direction; a segment equal to *)
(* a pattern adds a threat record unless the set of the player's stones in *)
(* it has been recorded before.                                            *)
(***************************************************************************)
THREAT_OPEN_THREE == 1
THREAT_CLOSED_FOUR == 2
THREAT_OPEN_FOUR == 3

\* board.py lines 362-377, with p, opponent and e of lines 352-354.
patterns_to_check(player) ==
    LET p == player
        opponent == IF p = BLACK THEN WHITE ELSE BLACK
        e == EMPTY
    IN  << <<THREAT_OPEN_THREE, <<e, p, p, p, e>>>>,
           <<THREAT_OPEN_THREE, <<e, p, p, e, p, e>>>>,
           <<THREAT_OPEN_THREE, <<e, p, e, p, p, e>>>>,
           <<THREAT_OPEN_THREE, <<e, p, e, p, e, p, e>>>>,
           <<THREAT_CLOSED_FOUR, <<opponent, p, p, p, p, e>>>>,
           <<THREAT_CLOSED_FOUR, <<e, p, p, p, p, opponent>>>>,
           <<THREAT_OPEN_FOUR, <<e, p, p, p, p, e>>>>,
           <<THREAT_CLOSED_FOUR, <<p, p, p, e, p>>>>,
           <<THREAT_CLOSED_FOUR, <<p, p, e, p, p>>>>,
           <<THREAT_CLOSED_FOUR, <<p, e, p, p, p>>>> >>

\* The four directions in the order of lines 436-467.
direction_chars == <<"h", "v", "d1", "d2">>

\* The step of a direction (lines 408-411): d2 runs up and to the right.
ThreatStep(direction_char) ==
    CASE direction_char = "h" -> <<0, 1>>
      [] direction_char = "v" -> <<1, 0>>
      [] direction_char = "d1" -> <<1, 1>>
      [] direction_char = "d2" -> <<-1, 1>>

\* The i-th cell (from 0) of the pattern laid from (r, c).
ThreatCell(r, c, direction_char, i) ==
    <<r + i * ThreatStep(direction_char)[1],
      c + i * ThreatStep(direction_char)[2]>>

\* Lines 437, 446, 454, 462: the pattern fits on the board.
PatternFits(b, r, c, direction_char, pattern_len) ==
    CASE direction_char = "h" -> c + pattern_len <= b.size
      [] direction_char = "v" -> r + pattern_len <= b.size
      [] direction_char = "d1" ->
            r + pattern_len <= b.size /\ c + pattern_len <= b.size
      [] direction_char = "d2" ->
            r >= pattern_len - 1 /\ c + pattern_len <= b.size

\* Lines 438-442, 447-450, 455-458, 463-466: the cells under the pattern
\* are those of the pattern (segment == pattern).
SegmentIsPattern(b, r, c, direction_char, pattern) ==
    \A i \in 1..Len(pattern) :
        GridAt(b, ThreatCell(r, c, direction_char, i - 1)[1],
               ThreatCell(r, c, direction_char, i - 1)[2]) = pattern[i]

\* Lines 405-414: the coordinates of the player's stones under the pattern,
\* in the order of the pattern.
player_stone_coords(b, r, c, direction_char, pattern_len, p) ==
    SelectSeq([i \in 1..pattern_len |-> ThreatCell(r, c, direction_char, i - 1)],
              LAMBDA cell : /\ is_within_bounds(b, cell[1], cell[2])
                            /\ GridAt(b, cell[1], cell[2]) = p)

\* A slip in line 425: the record is appended whether or not its stones
\* have been recorded before.
add_threat_always(st, b, r, c, threat_type, pattern_len, direction_char, p) ==
    LET stones == player_stone_coords(b, r, c, direction_char, pattern_len, p)
        threat_cells == Elements(stones)
    IN  IF stones = <<>> THEN st
        ELSE [threats |-> Append(st.threats,
                                 <<threat_type, <<r, c>>,
                                   ThreatCell(r, c, direction_char,
                                              pattern_len - 1),
                                   direction_char, stones>>),
              processed_threat_locations |->
                  st.processed_threat_locations \cup {threat_cells}]

\* Lines 387-431, the helper add_threat_if_valid: st holds the list threats
\* and the set processed_threat_locations.
add_threat_if_valid(st, b, r, c, threat_type, pattern_len, direction_char, p) ==
    LET stones == player_stone_coords(b, r, c, direction_char, pattern_len, p)
        threat_cells == Elements(stones)
    IN  IF stones = <<>> THEN st
        ELSE IF threat_cells \in st.processed_threat_locations THEN st
        ELSE [threats |-> Append(st.threats,
                                 <<threat_type, <<r, c>>,
                                   ThreatCell(r, c, direction_char,
                                              pattern_len - 1),
                                   direction_char, stones>>),
              processed_threat_locations |->
                  st.processed_threat_locations \cup {threat_cells}]

\* Lines 436-467: one pattern in one direction from (r, c).
CheckDirection(st, b, r, c, entry, direction_char, p) ==
    IF /\ PatternFits(b, r, c, direction_char, Len(entry[2]))
       /\ SegmentIsPattern(b, r, c, direction_char, entry[2])
    THEN add_threat_if_valid(st, b, r, c, entry[1], Len(entry[2]),
                             direction_char, p)
    ELSE st

\* Line 383: the loop over the patterns, each in the four directions; the
\* pairs of a pattern and a direction are numbered from 0, and the pairs
\* lo..hi are worked through in their order.
RECURSIVE CheckPatterns(_, _, _, _, _, _, _, _)
CheckPatterns(st, b, r, c, patterns, p, lo, hi) ==
    IF lo > hi THEN st
    ELSE IF lo = hi
    THEN CheckDirection(st, b, r, c, patterns[(lo \div 4) + 1],
                        direction_chars[(lo % 4) + 1], p)
    ELSE LET first == CheckPatterns(st, b, r, c, patterns, p, lo,
                                    (lo + hi) \div 2)
         IN  \* (the first half is worked out before the second is begun)
             CASE Len(first.threats) >= 0 ->
                 CheckPatterns(first, b, r, c, patterns, p,
                               (lo + hi) \div 2 + 1, hi)

\* Lines 381-382: the loops over the cells lo..hi, numbered row by row.
RECURSIVE ScanCells(_, _, _, _, _, _)
ScanCells(st, b, patterns, p, lo, hi) ==
    IF lo > hi THEN st
    ELSE IF lo = hi
    THEN CheckPatterns(st, b, lo \div b.size, lo % b.size, patterns, p, 0,
                       4 * Len(patterns) - 1)
    ELSE LET first == ScanCells(st, b, patterns, p, lo, (lo + hi) \div 2)
         IN  \* (the first half is worked out before the second is begun)
             CASE Len(first.threats) >= 0 ->
                 ScanCells(first, b, patterns, p, (lo + hi) \div 2 + 1, hi)

\* Board.find_threats(player).
find_threats(b, player) ==
    IF b.win_length # 5 THEN <<>>
    ELSE ScanCells([threats |-> <<>>, processed_threat_locations |-> {}],
                   b, patterns_to_check(player), player, 0,
                   b.size * b.size - 1).threats

(***************************************************************************)
(* SpecThreats: find_threats on 7 x 7 boards with win_length 5 loaded from *)
(* saved games whose stones lie on the first six cells of one of the four  *)
(* lines through the centre: three or more stones of one colour and at     *)
(* most MaxLineStones stones in all, in every arrangement.                 *)
(***************************************************************************)
\* The largest number of stones on the line.
MaxLineStones == 4

\* The first cell of the line through the centre in each direction.
LineStart(direction_char) ==
    CASE direction_char = "h" -> <<3, 0>>
      [] direction_char = "v" -> <<0, 3>>
      [] direction_char = "d1" -> <<0, 0>>
      [] direction_char = "d2" -> <<6, 0>>

\* What the first six cells of the line hold.
LinePatterns ==
    {f \in [0..5 -> {EMPTY, BLACK, WHITE}] :
        /\ \E colour \in Players :
               Cardinality({i \in 0..5 : f[i] = colour}) >= 3
        /\ Cardinality({i \in 0..5 : f[i] # EMPTY}) <= MaxLineStones}

\* Four stones of one colour with a stone of the other colour at one end
\* and an empty cell at the other.
BoundedFourPatterns ==
    {[i \in 0..5 |-> IF i = 0 THEN q[2] ELSE IF i = 5 THEN EMPTY ELSE q[1]] :
        q \in {<<BLACK, WHITE>>, <<WHITE, BLACK>>}}
    \cup
    {[i \in 0..5 |-> IF i = 0 THEN EMPTY ELSE IF i = 5 THEN q[2] ELSE q[1]] :
        q \in {<<BLACK, WHITE>>, <<WHITE, BLACK>>}}

\* Stones that lie on none of the four lines.
ThreatFarCells ==
    <<<<0, 1>>, <<0, 5>>, <<6, 1>>, <<6, 5>>, <<1, 0>>, <<5, 6>>, <<1, 6>>,
      <<5, 0>>>>

\* The cells of the line that hold the colour, from the first cell on.
LineStones(direction_char, f, colour) ==
    SelectSeq([i \in 1..6 |-> i - 1], LAMBDA i : f[i] = colour)

\* The saved game: Black and White stones in turn, Black first; the colour
\* with too few stones on the line gets stones of ThreatFarCells.
ThreatHistory(direction_char, f) ==
    LET start == LineStart(direction_char)
        cell(i) == ThreatCell(start[1], start[2], direction_char, i)
        on_line(colour) ==
            LET at == LineStones(direction_char, f, colour)
            IN  [k \in 1..Len(at) |-> cell(at[k])]
        black_count == Max(Len(on_line(BLACK)), Len(on_line(WHITE)))
        white_count == IF Len(on_line(WHITE)) >= Len(on_line(BLACK))
                       THEN black_count ELSE black_count - 1
        blacks == on_line(BLACK)
                      \o SubSeq(ThreatFarCells, 1,
                                black_count - Len(on_line(BLACK)))
        whites == on_line(WHITE)
                      \o SubSeq(ThreatFarCells, 1,
                                white_count - Len(on_line(WHITE)))
    IN  [i \in 1..(black_count + white_count) |->
            IF i % 2 = 1 THEN blacks[(i + 1) \div 2] ELSE whites[i \div 2]]

\* A call find_threats(player) for one of players.
FindThreatsOf(players) ==
    \E player \in players :
        LET threats == find_threats(board, player)
        IN  /\ call' = [op |-> "find_threats", row |-> 0, col |-> 0,
                        player |-> player, move_count |-> 0,
                        ret |-> threats # <<>>, info |-> threats]
            /\ UNCHANGED <<board, ai, game>>

\* find_threats(player), as game.py calls it for both players (lines 663,
\* 701, 963-964).
FindThreats == FindThreatsOf(Players)

\* The boards with the stones on the line of one of directions.
InitThreatsOn(directions) ==
    /\ call = NoCall
    /\ ai = NoAI
    /\ game = NoGame
    /\ \E direction_char \in directions,
          f \in LinePatterns \cup BoundedFourPatterns :
           board = reset_game(7, 5, ThreatHistory(direction_char, f)).board

InitThreats == InitThreatsOn(Elements(direction_chars))

NextThreats == NotAsked /\ FindThreats

SpecThreats == InitThreats /\ [][NextThreats]_vars

(***************************************************************************)
(* SpecThreatsOfAny: find_threats for every value a cell of the grid       *)
(* holds, on the boards above whose stones lie on the row or on the rising *)
(* diagonal through the centre.  game.py passes BLACK and WHITE; the       *)
(* method takes any value (p = int(player), line 352), and with EMPTY the  *)
(* patterns of lines 362-377 are made of e and opponent alone, so that one *)
(* window of empty cells equals several of them.                           *)
(***************************************************************************)
InitThreatsOfAny == InitThreatsOn({"h", "d2"})

NextThreatsOfAny == NotAsked /\ FindThreatsOf({EMPTY, BLACK, WHITE})

SpecThreatsOfAny == InitThreatsOfAny /\ [][NextThreatsOfAny]_vars

(***************************************************************************)
(* SpecDeep: find_move of a Hard strategy constructed with depth DeepDepth *)
(* (AIHard(player, depth=4)), never out of time, on 5 x 5 boards with      *)
(* win_length 4 loaded from saved games that leave five or six cells       *)
(* empty, so that the search reaches positions by more than one order of   *)
(* moves.                                                                  *)
(***************************************************************************)
\* The depth argument of the constructor.
DeepDepth == 4

\* Three saved games: no side has won, none can win at once.
DeepGames ==
    {<<<<2, 1>>, <<0, 2>>, <<0, 3>>, <<1, 4>>, <<1, 1>>, <<1, 0>>, <<3, 2>>,
       <<3, 0>>, <<0, 4>>, <<1, 2>>, <<4, 3>>, <<4, 0>>, <<2, 2>>, <<3, 3>>,
       <<4, 4>>, <<3, 4>>, <<2, 0>>, <<0, 0>>, <<2, 4>>, <<0, 1>>>>,
     <<<<2, 1>>, <<4, 4>>, <<2, 3>>, <<0, 1>>, <<4, 0>>, <<0, 0>>, <<0, 2>>,
       <<2, 2>>, <<3, 3>>, <<4, 3>>, <<3, 4>>, <<1, 0>>, <<1, 2>>, <<1, 1>>,
       <<0, 4>>, <<1, 4>>, <<4, 2>>, <<3, 1>>, <<4, 1>>, <<2, 4>>>>,
     <<<<1, 3>>, <<0, 4>>, <<0, 2>>, <<2, 4>>, <<0, 1>>, <<4, 0>>, <<4, 2>>,
       <<3, 1>>, <<3, 4>>, <<0, 0>>, <<4, 3>>, <<1, 4>>, <<0, 3>>, <<2, 3>>,
       <<3, 3>>, <<1, 1>>, <<1, 2>>, <<1, 0>>, <<2, 0>>>>}

\* The saved games: the three games, and the games that differ from one of
\* them in the cells of the last two stones, neither of which wins.
DeepHistories ==
    {history \in UNION {{SubSeq(g, 1, Len(g) - 2) \o <<m1, m2>> :
                            m1 \in Cells(5), m2 \in Cells(5)} :
                        g \in DeepGames} :
        /\ Cardinality(Elements(history)) = Len(history)
        /\ \A n \in {Len(history) - 1, Len(history)} :
               ~check_win(LoadedBoard(5, 4, SubSeq(history, 1, n)),
                          IF n % 2 = 1 THEN BLACK ELSE WHITE).won}

\* find_move of the Hard strategy with a time limit that is never exceeded.
FindMoveHardUntimed ==
    /\ ai.kind = "hard"
    /\ \E clock \in {Unlimited} :
           \E res \in {AIHard_find_move(ai, board, Stones(board), clock)} :
               \E move \in res.rets :
                   /\ board' = res.board
                   /\ call' = FindMoveCall(ai, Stones(board), move)
                                  @@ [clock |-> clock]
                   /\ ai' = res.ai
                   /\ UNCHANGED game

InitDeep ==
    /\ call = NoCall
    /\ game = NoGame
    /\ \E history \in DeepHistories :
           /\ board = reset_game(5, 4, history).board
           /\ ai = AIHard(IF Len(history) % 2 = 0 THEN BLACK ELSE WHITE,
                          DeepDepth)

NextDeep == NotAsked /\ FindMoveHardUntimed

SpecDeep == InitDeep /\ [][NextDeep]_vars

(***************************************************************************)
(* SpecEval: _evaluate_board on 9 x 9 boards with win_length 6 loaded from *)
(* saved games in which one of the four lines through the centre holds     *)
(* five stones of one colour in a row, so that the game goes on, and up to *)
(* MaxEvalStones stones in all.                                            *)
(***************************************************************************)
MaxEvalStones == 8

\* The first cell of the line through the centre in each direction.
EvalLineStart(direction_char) ==
    CASE direction_char = "h" -> <<4, 0>>
      [] direction_char = "v" -> <<0, 4>>
      [] direction_char = "d1" -> <<0, 0>>
      [] direction_char = "d2" -> <<8, 0>>

\* Five cells in a row from position i of a line hold the colour.
FiveAt(line, i, colour) == \A j \in 0..4 : line[i + j] = colour

\* What the nine cells of the line hold.
EvalLinePatterns ==
    {f \in [1..9 -> {EMPTY, BLACK, WHITE}] :
        /\ \E colour \in Players, i \in 1..5 : FiveAt(f, i, colour)
        /\ Cardinality({i \in 1..9 : f[i] # EMPTY}) <= MaxEvalStones}

\* Stones that lie on none of the four lines, no three of them near each
\* other on a line.
EvalFarCells ==
    <<<<0, 1>>, <<0, 5>>, <<1, 3>>, <<1, 7>>, <<2, 0>>, <<3, 8>>, <<5, 0>>,
      <<6, 8>>, <<7, 1>>>>

\* The saved game: Black and White stones in turn, Black first; the colour
\* with too few stones on the line gets stones of EvalFarCells.
EvalHistory(direction_char, f) ==
    LET start == EvalLineStart(direction_char)
        on_line(colour) ==
            SelectSeq([i \in 1..9 |->
                          IF f[i] = colour
                          THEN ThreatCell(start[1], start[2], direction_char,
                                          i - 1)
                          ELSE None],
                      LAMBDA cell : cell # None)
        black_line == on_line(BLACK)
        white_line == on_line(WHITE)
        black_count == Max(Len(black_line), Len(white_line))
        white_count == IF Len(white_line) >= Len(black_line)
                       THEN black_count ELSE black_count - 1
        blacks == black_line
                      \o SubSeq(EvalFarCells, 1, black_count - Len(black_line))
        whites == white_line
                      \o SubSeq(EvalFarCells, 1, white_count - Len(white_line))
    IN  SubSeq([i \in 1..(black_count + white_count) |->
                   IF i % 2 = 1 THEN blacks[(i + 1) \div 2]
                   ELSE whites[i \div 2]],
               1, black_count + white_count)

\* _evaluate_board of the Hard strategy of either colour, as _minimax
\* calls it at the leaves of the search (lines 498 and 526).
EvaluateBoard ==
    \E player \in Players :
        /\ call' = [op |-> "_evaluate_board", row |-> 0, col |-> 0,
                    player |-> player, move_count |-> Stones(board),
                    ret |-> TRUE,
                    info |-> _evaluate_board(AIHard(player, 2), board)]
        /\ UNCHANGED <<board, ai, game>>

InitEval ==
    /\ call = NoCall
    /\ ai = NoAI
    /\ game = NoGame
    /\ \E direction_char \in Elements(direction_chars), f \in EvalLinePatterns :
           board = reset_game(9, 6, EvalHistory(direction_char, f)).board

NextEval == NotAsked /\ EvaluateBoard

SpecEval == InitEval /\ [][NextEval]_vars

(***************************************************************************)
(* SpecGame: the game controller with its history viewer and its Rematch   *)
(* button, on a 9 x 9 board with win_length 3.  A game starts empty, or    *)
(* from a save file: game_mode, ai_starts and the history are read from    *)
(* the file independently of each other (main.py lines 386-410).  The      *)
(* strategy is Easy or Normal; Easy may return any valid cell, which       *)
(* covers whatever a strategy answers.                                      *)
(***************************************************************************)
\* The number of stones up to which a game is followed from its start.
MaxPlayed == 3

\* The number of entries the viewer steps back from the end of the history.
MaxBack == 3

\* The cells the person clicks on: those of HumanCells, the cell above the
\* centre, and the cells the saved games leave empty.
GameCells(b) ==
    HumanCells(b) \cup {<<b.size \div 2 - 1, b.size \div 2>>} \cup EndHoleCells

\* Games are followed through their first MaxPlayed stones, and through
\* the cells the saved games leave empty.
Followed ==
    \/ Len(game.move_history) < MaxPlayed
    \/ Len(game.move_history) >= board.size * board.size - MaxHoles

\* Game._reconstruct_board lines 231-257 (without the cache, which holds the
\* result of the same computation): the loop of lines 243-252 is the loop
\* of reset_game lines 88-97 over the first target_index entries.
_reconstruct_board(g, b, target_index) ==
    IF target_index < 0 \/ target_index > Len(g.move_history) THEN None
    ELSE LoadHistory([board |-> Board(b.size, b.win_length),
                      move_history |-> <<>>],
                     g.move_history, 1, target_index).board

\* Game.handle_event lines 549-556: the button "< Prev".
PrevClicked ==
    /\ game.display_move_index > 0
    /\ game.display_move_index > Len(game.move_history) - MaxBack
    /\ game' = [game EXCEPT !.display_move_index = @ - 1,
                            !.is_history_mode = TRUE,
                            !.needs_redraw = TRUE]
    /\ UNCHANGED <<board, call, ai>>

\* Game.handle_event lines 558-568: the button "Next >".
NextClicked ==
    /\ game.display_move_index < Len(game.move_history)
    /\ game' = [game EXCEPT
                   !.display_move_index = @ + 1,
                   !.needs_redraw = TRUE,
                   !.is_history_mode =
                       IF game.display_move_index + 1 = Len(game.move_history)
                       THEN FALSE ELSE @]
    /\ UNCHANGED <<board, call, ai>>

\* Game.handle_event lines 536-539: the button "Rematch" calls reset_game(),
\* which also makes a new strategy object (lines 120-129).
Rematch ==
    /\ game.game_over
    /\ ~game.is_history_mode
    /\ \E start \in {reset_game_settings(board.size, board.win_length,
                                         game_mode(ai), game.ai_starts,
                                         <<>>)} :
           /\ board' = start.board
           /\ game' = start.game
    /\ ai' = create_ai(ai.kind, ai.player)
    /\ call' = NoCall

InitGame ==
    /\ ai \in {create_ai(difficulty, player) :
                  difficulty \in {"easy", "normal"}, player \in Players}
    /\ call = NoCall
    /\ \E ai_starts \in BOOLEAN,
          history \in {<<>>} \cup {EndHistory(holes) : holes \in EndHoles} :
           \E start \in {reset_game_settings(9, 3, game_mode(ai), ai_starts,
                                             history)} :
               /\ board = start.board
               /\ game = start.game

NextGame ==
    \/ Followed /\ HumanClickOn(GameCells(board))
    \/ Followed /\ UpdateEasy
    \/ Followed /\ UpdateNormal
    \/ PrevClicked
    \/ NextClicked
    \/ Rematch
    \/ UpdateRedraw
    \/ Draw
    \/ ResearchModeClicked

SpecGame == InitGame /\ [][NextGame]_vars

(***************************************************************************)
(* Properties.  The run of player stones through a cell is computed here   *)
(* from the grid alone, independently of the counting loops above.         *)
(***************************************************************************)
\* How far the player stones reach from p in the direction (dr, dc): the
\* k for which the k cells after p hold player and the next one does not.
Reach(b, p, dr, dc, player) ==
    LET Holds(j) == /\ is_within_bounds(b, p[1] + j * dr, p[2] + j * dc)
                    /\ GridAt(b, p[1] + j * dr, p[2] + j * dc) = player
    IN  CHOOSE k \in 0..(b.size - 1) :
            (\A j \in 1..k : Holds(j)) /\ ~Holds(k + 1)

\* The length of the run through p when p itself is taken to hold player.
RunLength(b, p, d, player) ==
    1 + Reach(b, p, d[1], d[2], player) + Reach(b, p, -d[1], -d[2], player)

\* The cell just beyond the reach is on the board and empty.
OpenBeyond(b, p, dr, dc, player) ==
    LET k == Reach(b, p, dr, dc, player) + 1
    IN  /\ is_within_bounds(b, p[1] + k * dr, p[2] + k * dc)
        /\ GridAt(b, p[1] + k * dr, p[2] + k * dc) = EMPTY

\* The two cells just beyond the run's ends are on the board and empty.
RunOpenBothEnds(b, p, d, player) ==
    /\ OpenBeyond(b, p, d[1], d[2], player)
    /\ OpenBeyond(b, p, -d[1], -d[2], player)

DirIndices == 1..Len(DIRECTIONS)

\* The empty cells with a stone on one of the eight cells around them: a
\* stone makes a run of two or more only on such a cell.
EmptyCells(b) ==
    LET stones == {p \in Cells(b.size) : GridAt(b, p[1], p[2]) # EMPTY}
        around == UNION {{<<p[1] + dr, p[2] + dc>> :
                             dr \in {-1, 0, 1}, dc \in {-1, 0, 1}} :
                         p \in stones}
    IN  {p \in around : /\ is_within_bounds(b, p[1], p[2])
                        /\ GridAt(b, p[1], p[2]) = EMPTY}

\* Everything of a board but the forbidden-position marker.
SameButMarker(b1, b2) ==
    /\ b1.grid = b2.grid
    /\ b1.last_move = b2.last_move
    /\ b1.size = b2.size
    /\ b1.win_length = b2.win_length
    /\ b1.center = b2.center

\* C1: place_stone returns true exactly when is_valid_move holds for the
\* same arguments; when it returns true the target cell becomes player, the
\* last move becomes (row, col) and every other cell keeps its value; when
\* it returns false the grid and the last move are unchanged.
C1_PlaceStoneContract ==
    [][call'.op = "place_stone" =>
         LET p == <<call'.row, call'.col>>
             valid == is_valid_move(board, call'.row, call'.col,
                                    call'.player, call'.move_count).ret
         IN  /\ call'.ret = valid
             /\ call'.ret =>
                  /\ board'.grid = [board.grid EXCEPT ![p[1] + 1][p[2] + 1] = call'.player]
                  /\ GridAt(board, p[1], p[2]) = EMPTY
                  /\ board'.last_move = p
             /\ ~call'.ret =>
                  /\ board'.grid = board.grid
                  /\ board'.last_move = board.last_move]_vars

\* C1 witness: a place_stone call has succeeded and its stone is the last
\* move on the board.
C1_Witness ==
    /\ call.op = "place_stone"
    /\ call.ret
    /\ GridAt(board, call.row, call.col) = call.player
    /\ board.last_move = <<call.row, call.col>>
    /\ Stones(board) >= 2

\* C2: on an occupied cell is_valid_move is false for every player and
\* every move_count, and a place_stone call never changes or removes a
\* stone that is on the board.
C2_OccupiedCellsStay ==
    /\ [](\A p \in Cells(board.size) :
             GridAt(board, p[1], p[2]) # EMPTY =>
                 \A pl \in Players, mc \in MoveCounts :
                     ~is_valid_move(board, p[1], p[2], pl, mc).ret)
    /\ [][call'.op = "place_stone" =>
             \A p \in Cells(board.size) :
                 GridAt(board, p[1], p[2]) # EMPTY => GridAt(board', p[1], p[2]) = GridAt(board, p[1], p[2])]_vars

\* C2 witness: place_stone was called on a cell that holds a stone of the
\* other colour, and was refused.
C2_Witness ==
    /\ call.op = "place_stone"
    /\ ~call.ret
    /\ GridAt(board, call.row, call.col) \notin {EMPTY, call.player}

\* The step is print_board: no rule method is called, and the marker of
\* the forbidden check is cleared.
PrintBoardStep ==
    /\ call' = call
    /\ board.forbidden_checked_pos # None
    /\ board' = [board EXCEPT !.forbidden_checked_pos = None]

\* C3: is_valid_move and is_forbidden, called on an empty cell of the
\* board, leave the grid and the last move as they were, on every return
\* path; is_valid_move changes at most the forbidden-position marker and
\* is_forbidden changes nothing.
C3_ChecksRestoreBoard ==
    [][(/\ call'.op \in {"is_valid_move", "is_forbidden"}
        /\ is_within_bounds(board, call'.row, call'.col)
        /\ GridAt(board, call'.row, call'.col) = EMPTY)
       => /\ SameButMarker(board', board)
          /\ (call'.op = "is_forbidden" /\ ~PrintBoardStep)
                => board' = board]_vars

\* C3 witness: is_valid_move has returned through the early exit for a run
\* of exactly win_length, for Black, on a cell that is (still) empty.
C3_Witness ==
    /\ call.op = "is_valid_move"
    /\ call.player = BLACK
    /\ call.ret
    /\ GridAt(board, call.row, call.col) = EMPTY
    /\ \E i \in DirIndices :
          RunLength(board, <<call.row, call.col>>, DIRECTIONS[i], BLACK)
              = board.win_length

\* C4: when find_move of AIEasy, AINormal or AIHard returns (from the win
\* or block pre-check, from a time-limit abort, after cut-offs in the
\* recursion or after the whole search), the grid and last_move of the
\* board are what they were before the call.
C4_FindMoveLeavesBoard ==
    [][call'.op = "find_move" =>
          /\ board'.grid = board.grid
          /\ board'.last_move = board.last_move]_vars

\* A find_move is the last call, made on a board with a last move.
FindMoveReturned(kind) ==
    /\ call.op = "find_move"
    /\ ai.kind = kind
    /\ board.last_move # None

\* There is a valid move on which the stone wins at once.
HasWinningMove(b, stone, player, move_count) ==
    \E cell \in Elements(get_empty_cells(b)) :
        /\ is_valid_move(b, cell[1], cell[2], player, move_count).ret
        /\ TryStone(b, cell[1], cell[2], stone).ret

\* AIHard has searched to depth 2 and a node of the recursion was left by
\* a cut-off: the table holds an entry stored as an upper bound.
C4_Witness ==
    /\ FindMoveReturned("hard")
    /\ \E h \in DOMAIN ai.transposition_table :
           ai.transposition_table[h][3] = "upperbound"

\* AIHard returned from the pre-check for its own win.
C4_ReachedPreCheckWin ==
    /\ FindMoveReturned("hard")
    /\ HasWinningMove(board, ai.player, ai.player, call.move_count)
    /\ TryStone(board, call.info[1], call.info[2], ai.player).ret

\* AIHard returned from the pre-check that blocks the opponent's win.
C4_ReachedPreCheckBlock ==
    /\ FindMoveReturned("hard")
    /\ ~HasWinningMove(board, ai.player, ai.player, call.move_count)
    /\ TryStone(board, call.info[1], call.info[2], ai.opponent).ret

\* AIHard ran out of time before the first root move of depth 2 was
\* searched: no pre-check returned and the table is empty.
C4_ReachedTimeAbort ==
    /\ FindMoveReturned("hard")
    /\ ~HasWinningMove(board, ai.player, ai.player, call.move_count)
    /\ ~HasWinningMove(board, ai.opponent, ai.player, call.move_count)
    /\ ai.transposition_table = <<>>
    /\ call.info # None

\* AINormal and AIEasy returned a move on a board with stones of both
\* colours.
C4_ReachedNormal == FindMoveReturned("normal") /\ Stones(board) >= 2

C4_ReachedEasy == FindMoveReturned("easy") /\ Stones(board) >= 2

\* C5: for Black, when a stone on an empty cell would make a run longer
\* than win_length in any of the four directions, is_forbidden is true and
\* is_valid_move is false.
C5_OverlineAlwaysForbidden ==
    \A p \in EmptyCells(board) :
        (\E i \in DirIndices :
            RunLength(board, p, DIRECTIONS[i], BLACK) > board.win_length)
        => /\ is_forbidden(board, p[1], p[2]).ret
           /\ \A mc \in MoveCounts :
                 ~is_valid_move(board, p[1], p[2], BLACK, mc).ret

\* C6 as stated: for Black, a stone that makes a run of exactly win_length
\* in some direction is not forbidden, whatever the runs in the other
\* directions are.
C6_ExactRunNeverForbidden ==
    \A p \in EmptyCells(board) :
        (\E i \in DirIndices :
            RunLength(board, p, DIRECTIONS[i], BLACK) = board.win_length)
        => ~_is_forbidden(board, p[1], p[2], BLACK).ret

\* C6 as amended: for Black, a stone that makes a run of exactly win_length
\* in some direction is not forbidden provided no direction scanned before
\* that one (order: horizontal, vertical, diagonal, anti-diagonal) holds a
\* run longer than win_length; the runs in the directions scanned after it
\* do not matter.
C6_ExactRunBeforeOverline ==
    \A p \in EmptyCells(board) :
        (\E i \in DirIndices :
            /\ RunLength(board, p, DIRECTIONS[i], BLACK) = board.win_length
            /\ \A j \in 1..(i - 1) :
                  RunLength(board, p, DIRECTIONS[j], BLACK) <= board.win_length)
        => /\ ~_is_forbidden(board, p[1], p[2], BLACK).ret
           /\ \A mc \in LateMoveCounts :
                 is_valid_move(board, p[1], p[2], BLACK, mc).ret

\* C6 witness: is_valid_move has accepted a Black stone that makes a run of
\* exactly win_length in one direction and a longer run in a direction
\* scanned later.
C6_Witness ==
    /\ call.op = "is_valid_move"
    /\ call.player = BLACK
    /\ call.ret
    /\ GridAt(board, call.row, call.col) = EMPTY
    /\ \E i \in DirIndices :
          /\ RunLength(board, <<call.row, call.col>>, DIRECTIONS[i], BLACK)
                = board.win_length
          /\ \E j \in (i + 1)..Len(DIRECTIONS) :
                RunLength(board, <<call.row, call.col>>, DIRECTIONS[j], BLACK)
                    > board.win_length

\* The number of directions in which a player stone on p makes a run of
\* exactly 3 with both ends empty, and of exactly 4.
OpenThreeDirs(b, p, player) ==
    Cardinality({i \in DirIndices :
                    /\ RunLength(b, p, DIRECTIONS[i], player) = 3
                    /\ RunOpenBothEnds(b, p, DIRECTIONS[i], player)})

FourDirs(b, p, player) ==
    Cardinality({i \in DirIndices :
                    RunLength(b, p, DIRECTIONS[i], player) = 4})

\* C7: when no direction's run through the candidate cell reaches
\* win_length, a Black stone is forbidden exactly when at least two
\* directions hold a run of exactly 3 with both ends empty or at least two
\* directions hold a run of exactly 4 (whatever its ends); a White stone is
\* never refused, whatever pattern it makes.
C7_DoubleThreeDoubleFour ==
    \A p \in EmptyCells(board) :
        LET run == [i \in DirIndices |->
                       RunLength(board, p, DIRECTIONS[i], BLACK)]
            threes == Cardinality({i \in DirIndices :
                          /\ run[i] = 3
                          /\ RunOpenBothEnds(board, p, DIRECTIONS[i], BLACK)})
            fours == Cardinality({i \in DirIndices : run[i] = 4})
            double == threes >= 2 \/ fours >= 2
        IN  /\ (\A i \in DirIndices : run[i] < board.win_length)
               => /\ _is_forbidden(board, p[1], p[2], BLACK).ret = double
                  /\ is_forbidden(board, p[1], p[2]).ret = double
                  /\ \A mc \in LateMoveCounts :
                        is_valid_move(board, p[1], p[2], BLACK, mc).ret = ~double
            /\ ~_is_forbidden(board, p[1], p[2], WHITE).ret
            /\ \A mc \in LateMoveCounts :
                  is_valid_move(board, p[1], p[2], WHITE, mc).ret

\* C7 witness: is_valid_move has refused a Black stone that makes two runs
\* of exactly 4 and no run of win_length.
C7_Witness ==
    /\ call.op = "is_valid_move"
    /\ call.player = BLACK
    /\ ~call.ret
    /\ GridAt(board, call.row, call.col) = EMPTY
    /\ board.forbidden_checked_pos = <<call.row, call.col>>
    /\ FourDirs(board, <<call.row, call.col>>, BLACK) >= 2
    /\ \A i \in DirIndices :
          RunLength(board, <<call.row, call.col>>, DIRECTIONS[i], BLACK)
              < board.win_length

\* Reached as well: a double three refused for Black, and the same shape
\* accepted for White.
C7_ReachedDoubleThree ==
    /\ call.op = "is_valid_move"
    /\ call.player = BLACK
    /\ ~call.ret
    /\ OpenThreeDirs(board, <<call.row, call.col>>, BLACK) >= 2
    /\ FourDirs(board, <<call.row, call.col>>, BLACK) = 0

C7_ReachedWhiteDoubleThree ==
    /\ call.op = "is_valid_move"
    /\ call.player = WHITE
    /\ call.ret
    /\ OpenThreeDirs(board, <<call.row, call.col>>, WHITE) >= 2

\* C8: with Black on (1, 2), (1, 3), (2, 2), (3, 2), White elsewhere and
\* (2, 3) empty, is_forbidden(2, 3) is true and is_valid_move(2, 3, Black,
\* move_count) is false for every move_count.
C8_ThreeThreeExample ==
    (/\ \A p \in Cells(board.size) :
           GridAt(board, p[1], p[2]) = BLACK <=> p \in ThreeBlack
     /\ \E p \in Cells(board.size) : GridAt(board, p[1], p[2]) = WHITE)
    => /\ is_forbidden(board, 2, 3).ret
       /\ \A mc \in MoveCounts : ~is_valid_move(board, 2, 3, BLACK, mc).ret

\* Reached under SpecThree: the board of the example, on which is_forbidden
\* has answered false for (2, 3) since no run through (2, 3) is longer
\* than 2.
C8_ReachedExample ==
    /\ \A p \in Cells(board.size) :
          GridAt(board, p[1], p[2]) = BLACK <=> p \in ThreeBlack
    /\ GridAt(board, 0, 0) = WHITE
    /\ GridAt(board, 10, 10) = WHITE
    /\ call.op = "is_forbidden"
    /\ ~call.ret
    /\ \A i \in DirIndices : RunLength(board, <<2, 3>>, DIRECTIONS[i], BLACK) = 2

\* The Chebyshev distance of the cell p from the centre of an odd board.
CenterDistance(b, p) ==
    LET mid == (b.size - 1) \div 2
        dr == IF p[1] >= mid THEN p[1] - mid ELSE mid - p[1]
        dc == IF p[2] >= mid THEN p[2] - mid ELSE mid - p[2]
    IN  IF dr >= dc THEN dr ELSE dc

\* C9: on a board of odd size >= 5, for either player: with move_count 0
\* on the empty board exactly the centre cell is a valid move; with
\* move_count 1 no cell but the one above the centre and the one up and to
\* the right of it is valid; with move_count 2 no cell farther than 2 from
\* the centre (Chebyshev) is valid.
C9_OpeningRestriction ==
    (board.size % 2 = 1 /\ board.size >= 5) =>
        LET mid == (board.size - 1) \div 2
        IN  \A p \in Cells(board.size), pl \in Players :
                /\ Stones(board) = 0 =>
                      (is_valid_move(board, p[1], p[2], pl, 0).ret
                          <=> p = <<mid, mid>>)
                /\ p \notin {<<mid - 1, mid>>, <<mid - 1, mid + 1>>} =>
                      ~is_valid_move(board, p[1], p[2], pl, 1).ret
                /\ CenterDistance(board, p) > 2 =>
                      ~is_valid_move(board, p[1], p[2], pl, 2).ret

\* C9 witness: with a stone on the centre and nothing else on the board,
\* is_valid_move with move_count 1 has refused the empty cell below the
\* centre.
C9_Witness ==
    /\ call.op = "is_valid_move"
    /\ call.move_count = 1
    /\ ~call.ret
    /\ Stones(board) = 1
    /\ GridAt(board, board.center[1], board.center[2]) # EMPTY
    /\ <<call.row, call.col>> = <<board.center[1] + 1, board.center[2]>>

\* Reached as well: the centre accepted on the empty board with move_count
\* 0, a cell of the second move accepted with move_count 1, and a cell at
\* distance 3 refused with move_count 2.
C9_ReachedFirstMove ==
    /\ call.op = "place_stone"
    /\ call.move_count = 0
    /\ call.ret
    /\ Stones(board) = 1
    /\ board.last_move = board.center

C9_ReachedSecondMove ==
    /\ call.op = "place_stone"
    /\ call.move_count = 1
    /\ call.ret
    /\ Stones(board) = 2
    /\ board.last_move = <<board.center[1] - 1, board.center[2] + 1>>

C9_ReachedThirdMoveFar ==
    /\ call.op = "is_valid_move"
    /\ call.move_count = 2
    /\ ~call.ret
    /\ is_within_bounds(board, call.row, call.col)
    /\ GridAt(board, call.row, call.col) = EMPTY
    /\ CenterDistance(board, <<call.row, call.col>>) = 3

\* The run through the last stone placed qualifies in some direction, and
\* check_win for that stone's colour is true with the two ends of the run
\* of the first such direction and that direction; a check_win call made
\* in this state has returned the same.
WinReported(b, c) ==
    b.last_move # None =>
        LET p == b.last_move
            pl == GridAt(b, p[1], p[2])
            qualifying == {i \in DirIndices :
                              RunLength(b, p, DIRECTIONS[i], pl) >= b.win_length}
        IN  qualifying # {} =>
                LET i == CHOOSE j \in qualifying : \A k \in qualifying : j <= k
                    d == DIRECTIONS[i]
                    back == Reach(b, p, -d[1], -d[2], pl)
                    forth == Reach(b, p, d[1], d[2], pl)
                    info == << <<p[1] - back * d[1], p[2] - back * d[2]>>,
                               <<p[1] + forth * d[1], p[2] + forth * d[2]>>,
                               d >>
                IN  /\ check_win(b, pl) = [won |-> TRUE, info |-> info]
                    /\ (c.op = "check_win" /\ c.player = pl)
                          => c.ret /\ c.info = info

\* The example: on the 15 x 15 board with win_length 5 and Black on exactly
\* (7, 7), (6, 7), (5, 7), (4, 7), place_stone(3, 7, Black, move_count) with
\* move_count in MCs succeeds, and check_win(Black) is then true with the
\* ends (3, 7) and (7, 7).
ColumnExample(MCs) ==
    (/\ call'.op = "place_stone"
     /\ <<call'.row, call'.col, call'.player>> = <<3, 7, BLACK>>
     /\ call'.move_count \in MCs
     /\ board.size = 15
     /\ board.win_length = 5
     /\ \A p \in Cells(board.size) :
           GridAt(board, p[1], p[2]) = BLACK
               <=> p \in {<<7, 7>>, <<6, 7>>, <<5, 7>>, <<4, 7>>})
    => /\ call'.ret
       /\ check_win(board', BLACK) =
              [won |-> TRUE, info |-> << <<3, 7>>, <<7, 7>>, <<1, 0>> >>]

\* C10: after a stone is placed so that its run reaches win_length in some
\* direction (longer runs included), check_win for its colour is true and
\* returns the two ends of the run of the first qualifying direction
\* (horizontal, vertical, diagonal, anti-diagonal) with that direction; and
\* with Black on (7, 7), (6, 7), (5, 7), (4, 7), placing Black on (3, 7) as
\* the win test of board.py places it (place_stone(3, 7, BLACK, 0), line
\* 562) succeeds, and check_win(Black) is true with the ends (3, 7) and
\* (7, 7).
C10_WinAfterPlacementAsTested ==
    /\ []WinReported(board, call)
    /\ [][ColumnExample({0})]_vars

\* What holds: the same with the example's stone placed with a move_count
\* of 3 or more (with 0, 1 or 2 the opening rules refuse it).
C10_WinAfterPlacement ==
    /\ []WinReported(board, call)
    /\ [][ColumnExample(LateMoveCounts)]_vars

\* Reached: Black has completed the column (3, 7)..(7, 7) with the stone on
\* (3, 7), and check_win(Black) has returned true with these ends.
C10_ReachedColumn ==
    /\ board.size = 15
    /\ board.last_move = <<3, 7>>
    /\ call.op = "check_win"
    /\ call.player = BLACK
    /\ call.ret
    /\ call.info = << <<3, 7>>, <<7, 7>>, <<1, 0>> >>

\* Reached as well: a stone that completes a row and a column at once, the
\* row being reported; a run longer than win_length on the anti-diagonal,
\* reported from its upper right end to its lower left end; and the
\* example's stone refused with move_count 0.
C10_ReachedTwoDirections ==
    /\ call.op = "check_win"
    /\ call.ret
    /\ call.info[3] = <<0, 1>>
    /\ RunLength(board, board.last_move, <<1, 0>>, call.player) >= board.win_length

C10_ReachedOverline ==
    /\ call.op = "check_win"
    /\ call.ret
    /\ call.info = << <<3, 7>>, <<6, 4>>, <<1, -1>> >>
    /\ board.last_move \in {<<4, 6>>, <<5, 5>>}

C10_ReachedExampleRefused ==
    /\ call.op = "place_stone"
    /\ <<call.row, call.col, call.player>> = <<3, 7, BLACK>>
    /\ call.move_count = 0
    /\ ~call.ret
    /\ \A p \in {<<7, 7>>, <<6, 7>>, <<5, 7>>, <<4, 7>>} :
          GridAt(board, p[1], p[2]) = BLACK

\* Player has a run of win_length or more somewhere on the board.
HasRun(b, player) ==
    \E q \in Cells(b.size), i \in DirIndices :
        /\ GridAt(b, q[1], q[2]) = player
        /\ RunLength(b, q, DIRECTIONS[i], player) >= b.win_length

\* The last-move cell holds the player's stone.
LastMoveHolds(b, player) ==
    /\ b.last_move # None
    /\ GridAt(b, b.last_move[1], b.last_move[2]) = player

\* C11: check_win(P) is false when there is no last move or the last-move
\* cell does not hold P, whatever runs P has elsewhere, both as the call
\* returns it and as it would return for either colour; so check_win is
\* never true for Black and for White in the same state.
C11_WinOnlyOnLastMove ==
    /\ (call.op = "check_win" /\ ~LastMoveHolds(board, call.player))
           => ~call.ret /\ call.info = None
    /\ \A p \in Players :
           ~LastMoveHolds(board, p) => ~check_win(board, p).won
    /\ ~(check_win(board, BLACK).won /\ check_win(board, WHITE).won)

\* C11 witness: check_win(Black) has returned false while Black has a run
\* of win_length on the board, the last move being a White stone.
C11_Witness ==
    /\ call.op = "check_win"
    /\ call.player = BLACK
    /\ ~call.ret
    /\ HasRun(board, BLACK)
    /\ LastMoveHolds(board, WHITE)

\* Reached as well: check_win is false for both colours on the empty
\* board, and true for the colour of the last move while the other colour
\* has stones.
C11_ReachedNoLastMove ==
    /\ call.op = "check_win"
    /\ board.last_move = None
    /\ ~call.ret

C11_ReachedWinOfLastMover ==
    /\ call.op = "check_win"
    /\ call.ret
    /\ LastMoveHolds(board, call.player)
    /\ \E q \in Cells(board.size) :
           GridAt(board, q[1], q[2]) \notin {EMPTY, call.player}


\* No empty cell of b passes is_valid_move for player at move_count.
NoValidCell(b, player, move_count) ==
    \A cell \in Elements(get_empty_cells(b)) :
        ~is_valid_move(b, cell[1], cell[2], player, move_count).ret

\* C12: find_move of every strategy returns none when the board has no
\* empty cell, and whenever no empty cell passes is_valid_move for the
\* strategy's player at the given move_count.
C12_NoneWithoutValidCell ==
    (call.op = "find_move"
         /\ NoValidCell(board, call.player, call.move_count))
        => ~call.ret /\ call.info = None

\* find_move has answered none on a board with empty cells, none of them
\* valid for its player.
C12_Witness ==
    /\ call.op = "find_move"
    /\ get_empty_cells(board) # <<>>
    /\ NoValidCell(board, call.player, call.move_count)
    /\ call.info = None

\* find_move has answered none on a board without an empty cell.
C12_ReachedFullBoard ==
    /\ call.op = "find_move"
    /\ get_empty_cells(board) = <<>>
    /\ call.info = None

\* find_move has answered with a cell on a board where another empty cell
\* is not valid for its player.
C12_ReachedMove ==
    /\ call.op = "find_move"
    /\ call.info # None
    /\ \E cell \in Elements(get_empty_cells(board)) :
           ~is_valid_move(board, cell[1], cell[2], call.player,
                          call.move_count).ret


\* It is the AI's turn in a game that is not over, find_move has just
\* answered none, and cells are still empty.
AIHasNoMove ==
    /\ AIToMove
    /\ call.op = "find_move"
    /\ call.info = None
    /\ get_empty_cells(board) # <<>>

\* C13: whenever an AI's find_move returns none the game is over with no
\* winner, so that no game stays open with the AI to move and without a
\* move.
C13_NoMoveIsDraw ==
    (call.op = "find_move" /\ call.info = None)
        => (game.game_over /\ game.winner = None)

\* Once the AI to move has no move in an open game, no step places a stone,
\* passes the turn or ends the game any more: the screen is painted, and
\* the AI is asked again.
C13_StuckStays ==
    [][AIHasNoMove =>
          /\ board'.grid = board.grid
          /\ board'.last_move = board.last_move
          /\ game'.move_history = game.move_history
          /\ game'.current_player = game.current_player
          /\ game'.game_over = game.game_over]_vars

\* The game is open, with the AI to move and without a move.
C13_ReachedStuck == AIHasNoMove /\ ~game.game_over


\* The empty cells on which a stone of player completes a run of at least
\* win_length.
WinningCells(b, player) ==
    {cell \in EmptyCells(b) :
        \E i \in DirIndices :
            RunLength(SetCell(b, cell[1], cell[2], player), cell,
                      DIRECTIONS[i], player) >= b.win_length}

\* The cells at the two ends of the fours of player: four stones in a row,
\* the cells before the first and after the last on the board and empty.
FourEnds(b, player) ==
    UNION {{<<p[1] - DIRECTIONS[i][1], p[2] - DIRECTIONS[i][2]>>,
            <<p[1] + 4 * DIRECTIONS[i][1], p[2] + 4 * DIRECTIONS[i][2]>>} :
           <<p, i>> \in
               {x \in Cells(b.size) \X DirIndices :
                   /\ GridAt(b, x[1][1], x[1][2]) = player
                   /\ Reach(b, x[1], DIRECTIONS[x[2]][1], DIRECTIONS[x[2]][2],
                            player) = 3
                   /\ Reach(b, x[1], -DIRECTIONS[x[2]][1],
                            -DIRECTIONS[x[2]][2], player) = 0
                   /\ RunOpenBothEnds(b, x[1], DIRECTIONS[x[2]], player)}}

\* find_move of the White Normal or Hard strategy has answered on a board
\* with win_length 5 on which Black has a four with both ends empty.
WhiteFacesFour ==
    /\ call.op = "find_move"
    /\ call.player = WHITE
    /\ ai.kind \in {"normal", "hard"}
    /\ board.win_length = 5
    /\ FourEnds(board, BLACK) # {}

\* C14 (as stated): facing a Black four with both ends empty, find_move of
\* the White Normal and Hard strategy returns one of the two cells at the
\* ends of that four.
C14_BlockAtEnd ==
    WhiteFacesFour => call.info \in FourEnds(board, BLACK)

\* C14 (amended): facing a Black four with both ends empty on a board with
\* win_length 5, White returns a winning cell of its own if it has one;
\* otherwise the first cell in row-major order on which a Black stone would
\* complete a run of five or more, which is an end of the four when Black
\* has no such cell before it.
C14_BlockUnlessWin ==
    WhiteFacesFour =>
        IF WinningCells(board, WHITE) # {}
        THEN call.info \in WinningCells(board, WHITE)
        ELSE /\ call.info \in WinningCells(board, BLACK)
             /\ \A q \in WinningCells(board, BLACK) : ~TupleLess(q, call.info)
             /\ (WinningCells(board, BLACK) \subseteq FourEnds(board, BLACK)
                    => call.info \in FourEnds(board, BLACK))

\* White, without a winning cell, has answered with an end of Black's four.
C14_Witness ==
    /\ WhiteFacesFour
    /\ WinningCells(board, WHITE) = {}
    /\ call.info \in FourEnds(board, BLACK)

\* White has answered with its own winning cell and left the four open.
C14_ReachedOwnWin ==
    /\ WhiteFacesFour
    /\ call.info \in WinningCells(board, WHITE)
    /\ call.info \notin FourEnds(board, BLACK)

\* White has blocked another winning cell of Black, not an end of the four.
C14_ReachedOtherBlock ==
    /\ WhiteFacesFour
    /\ WinningCells(board, WHITE) = {}
    /\ call.info \in WinningCells(board, BLACK) \ FourEnds(board, BLACK)


\* The cells that are valid moves of player at move_count and on which a
\* stone of the colour stone completes a run of at least win_length.
LegalWinningCells(b, player, stone, move_count) ==
    {cell \in WinningCells(b, stone) :
        is_valid_move(b, cell[1], cell[2], player, move_count).ret}

\* find_move of the Normal or the Hard strategy has answered.
NormalOrHardAnswered ==
    /\ call.op = "find_move"
    /\ ai.kind \in {"normal", "hard"}

\* C19: for the Normal and the Hard strategy, if some cell that is legal for
\* the AI's player completes a run of at least win_length for it, find_move
\* returns such a cell, whatever the opponent threatens, and the search of
\* the Hard strategy has not run (its table is empty, and the answer does
\* not depend on the clock).
C19_WinFirst ==
    (NormalOrHardAnswered
         /\ LegalWinningCells(board, ai.player, ai.player,
                              call.move_count) # {})
        => /\ call.info \in LegalWinningCells(board, ai.player, ai.player,
                                              call.move_count)
           /\ ai.kind = "hard" => ai.transposition_table = <<>>

\* The AI had a winning cell while the opponent threatened to win on
\* another cell, and has answered with a winning cell that blocks nothing.
C19_Witness ==
    /\ NormalOrHardAnswered
    /\ call.info \in LegalWinningCells(board, ai.player, ai.player,
                                       call.move_count)
    /\ LegalWinningCells(board, ai.player, ai.opponent,
                         call.move_count) # {}
    /\ call.info \notin WinningCells(board, ai.opponent)

\* C20: for the Normal and the Hard strategy, if no legal cell wins for the
\* AI's player but on some cell legal for it an opponent stone would
\* complete a run of at least win_length, find_move returns such a cell.
C20_BlockNext ==
    (NormalOrHardAnswered
         /\ LegalWinningCells(board, ai.player, ai.player,
                              call.move_count) = {}
         /\ LegalWinningCells(board, ai.player, ai.opponent,
                              call.move_count) # {})
        => call.info \in LegalWinningCells(board, ai.player, ai.opponent,
                                           call.move_count)

\* The AI had no winning cell and has answered with a cell on which the
\* opponent would have won, other legal cells being at hand.
C20_Witness ==
    /\ NormalOrHardAnswered
    /\ LegalWinningCells(board, ai.player, ai.player, call.move_count) = {}
    /\ call.info \in LegalWinningCells(board, ai.player, ai.opponent,
                                       call.move_count)
    /\ \E cell \in EmptyCells(board) :
           /\ cell \notin WinningCells(board, ai.opponent)
           /\ is_valid_move(board, cell[1], cell[2], ai.player,
                            call.move_count).ret


\* find_move of the Hard strategy has answered after its search has met
\* the clock: no cell won for either side in the pre-checks, and the time
\* limit was found exceeded at some reading.
SearchTimed ==
    /\ call.op = "find_move"
    /\ ai.kind = "hard"
    /\ "clock" \in DOMAIN call
    /\ call.clock # Unlimited
    /\ LegalWinningCells(board, ai.player, ai.player, call.move_count) = {}
    /\ LegalWinningCells(board, ai.player, ai.opponent, call.move_count) = {}

\* The moves of the root scan of the call, in its order.
RootMoves ==
    _get_ordered_adjacent_moves(board, ai.player, call.move_count).moves

\* The first valid empty cell in row-major order: valid_empty_cells[0].
FirstValidCell ==
    ValidMoves(board, get_empty_cells(board), 1, Len(get_empty_cells(board)),
               ai.player, call.move_count).valid[1]

\* What the same call returns and leaves in the strategy object when the
\* search is limited to the given depth and the time limit is never
\* exceeded: the best move of the completed depth.
CompletedDepth(depth) ==
    AIHard_find_move([ai EXCEPT !.max_depth = depth], board, call.move_count,
                     Unlimited)

\* The clock is read before every root move and after every depth: with n
\* root moves, a clock that finds the limit exceeded after k readings stops
\* the search within depth 1 when k < n, after depth 1 when k = n, within
\* depth 2 when n < k <= 2n, after depth 2 otherwise.
ExpiredWithinDepth1 == SearchTimed /\ call.clock < Len(RootMoves)

ExpiredAfterDepth1 == SearchTimed /\ call.clock = Len(RootMoves)

ExpiredWithinDepth2 ==
    /\ SearchTimed
    /\ call.clock > Len(RootMoves)
    /\ call.clock <= 2 * Len(RootMoves)

\* C17 (as stated), the fallback: if the budget expires before depth 1
\* completes, the move returned is taken from the depth-1 results of the
\* first root scan.
C17_FallbackFromRootScan ==
    ExpiredWithinDepth1 => call.info \in Elements(RootMoves)

\* C17 (amended): when the time limit is found exceeded, find_move of the
\* Hard strategy returns a legal move: the first valid empty cell in
\* row-major order if depth 1 was not completed, the best move of depth 1
\* if the limit is found exceeded after depth 1 (depth 2 is not started) or
\* within depth 2, the best move of depth 2 after that.
C17_TimeoutReturnsCompletedDepth ==
    SearchTimed =>
        /\ is_valid_move(board, call.info[1], call.info[2], ai.player,
                         call.move_count).ret
        /\ ExpiredWithinDepth1 => call.info = FirstValidCell
        /\ ExpiredAfterDepth1 =>
               /\ {call.info} = CompletedDepth(1).rets
               /\ ai.transposition_table
                      = CompletedDepth(1).ai.transposition_table
        /\ ExpiredWithinDepth2 => {call.info} = CompletedDepth(1).rets
        /\ call.clock > 2 * Len(RootMoves)
               => {call.info} = CompletedDepth(2).rets

\* The limit was found exceeded within depth 2 and the move returned is the
\* best of depth 1, which is not the fallback chosen before the search.
C17_Witness ==
    /\ ExpiredWithinDepth2
    /\ {call.info} = CompletedDepth(1).rets
    /\ call.info # FirstValidCell

\* The limit was found exceeded within depth 1 after a root move had been
\* scored, and the fallback is not a move of the root scan.
C17_ReachedFallback ==
    /\ ExpiredWithinDepth1
    /\ call.clock > 0
    /\ call.info = FirstValidCell
    /\ call.info \notin Elements(RootMoves)

\* The limit was found exceeded right after depth 1.
C17_ReachedAfterDepth1 == ExpiredAfterDepth1

\* The sets of stone coordinates of the threat records of the last call.
ThreatStoneSets == [i \in 1..Len(call.info) |-> Elements(call.info[i][5])]

\* The windows of the board that equal a pattern of find_threats(player):
\* the cell the pattern is laid from, the number of the pattern and the
\* direction.
ThreatMatches(b, player) ==
    {m \in Cells(b.size) \X (1..Len(patterns_to_check(player)))
              \X Elements(direction_chars) :
        /\ PatternFits(b, m[1][1], m[1][2], m[3],
                       Len(patterns_to_check(player)[m[2]][2]))
        /\ SegmentIsPattern(b, m[1][1], m[1][2], m[3],
                            patterns_to_check(player)[m[2]][2])}

\* The set of the cells of a window that hold the value of player.
MatchStones(b, player, m) ==
    Elements(player_stone_coords(b, m[1][1], m[1][2], m[3],
                                 Len(patterns_to_check(player)[m[2]][2]),
                                 player))

\* C18: find_threats(player) never returns two threat records with the same
\* set of stone coordinates.
C18_NoTwoThreatsOnSameStones ==
    call.op = "find_threats" =>
        \A i, j \in 1..Len(call.info) :
            ThreatStoneSets[i] = ThreatStoneSets[j] => i = j

\* Two windows of the board equal a pattern and hold the same set of
\* cells, and find_threats has returned one record with that set: the
\* second window was left out by the test of line 425.
C18_Witness ==
    /\ call.op = "find_threats"
    /\ \E m1, m2 \in ThreatMatches(board, call.player) :
           /\ m1 # m2
           /\ MatchStones(board, call.player, m1)
                  = MatchStones(board, call.player, m2)
           /\ Cardinality({i \in 1..Len(call.info) :
                               ThreatStoneSets[i]
                                   = MatchStones(board, call.player, m1)}) = 1

\* For BLACK and WHITE every window that equals a pattern has its record:
\* the set of stones fixes the pattern and its place, and the test of line
\* 425 leaves nothing out.
C18_EveryMatchRecorded ==
    (call.op = "find_threats" /\ call.player \in Players) =>
        Cardinality(ThreatMatches(board, call.player)) = Len(call.info)

\* Reached as well: for a player, two records that share stones, for
\* different sets of stones.
C18_ReachedSharedStones ==
    /\ call.op = "find_threats"
    /\ call.player \in Players
    /\ \E i, j \in 1..Len(call.info) :
           /\ i # j
           /\ ThreatStoneSets[i] \cap ThreatStoneSets[j] # {}

\* The largest and the smallest number of a set of numbers.
SetMax(S) == CHOOSE x \in S : \A y \in S : x >= y

SetMin(S) == CHOOSE x \in S : \A y \in S : x <= y

\* The score of the node by minimax over the move tree of _minimax (the
\* terminal tests of lines 490-502, the candidates of lines 505-526, the
\* single move of lines 529-552 when a win or a block is found), without a
\* table and without cut-offs: every move of every node is searched.
RECURSIVE Unpruned(_, _, _, _, _)
Unpruned(a, b, depth, maximizing_player, move_count) ==
    LET current_player_sim == IF maximizing_player THEN a.player ELSE a.opponent
        opponent_sim == IF maximizing_player THEN a.opponent ELSE a.player
        cm == CandidateMoves(b, current_player_sim, move_count)
        win == ImmediateMove(cm.board, cm.moves, 1, Len(cm.moves),
                             current_player_sim)
        block == ImmediateMove(win.board, cm.moves, 1, Len(cm.moves),
                               opponent_sim)
        moves == IF win.ret # None THEN {win.ret}
                 ELSE IF block.ret # None THEN {block.ret}
                 ELSE Elements(cm.moves)
        scores == {Unpruned(a, DoMove(cm.board, m[1], m[2], current_player_sim),
                            depth - 1, ~maximizing_player, move_count + 1) :
                   m \in moves}
    IN  IF check_win(b, current_player_sim).won
        THEN PATTERN_SCORES.p_win + depth
        ELSE IF check_win(b, opponent_sim).won
        THEN PATTERN_SCORES.o_win - depth
        ELSE IF get_empty_cells(b) = <<>> THEN 0
        ELSE IF depth <= 0 THEN _evaluate_board(a, b)
        ELSE IF cm.moves = <<>> THEN _evaluate_board(a, cm.board)
        ELSE IF maximizing_player THEN SetMax(scores) ELSE SetMin(scores)

\* find_move of the Hard strategy has answered after a search that was
\* never out of time: no cell won for either side in the pre-checks, and
\* every depth up to max_depth was completed.
SearchCompleted ==
    /\ call.op = "find_move"
    /\ ai.kind = "hard"
    /\ "clock" \in DOMAIN call
    /\ call.clock = Unlimited
    /\ LegalWinningCells(board, ai.player, ai.player, call.move_count) = {}
    /\ LegalWinningCells(board, ai.player, ai.opponent, call.move_count) = {}

\* The hash of the position after the move that was returned.
ChosenHash ==
    Xor(_calculate_board_hash(board),
        zobrist_table(call.info[1], call.info[2], ZOBRIST_PLAYERS(ai.player)))

\* The search below the move that was returned has stored its score, at
\* the last depth: the score the root loop got for the move.
ChosenScored ==
    /\ SearchCompleted
    /\ ChosenHash \in DOMAIN ai.transposition_table
    /\ ai.transposition_table[ChosenHash][2] = ai.max_depth - 1

\* C15: for the root move chosen at the last completed depth, the score
\* returned by the search with alpha-beta pruning and the transposition
\* table equals the score of the unpruned, table-free minimax over the
\* same move tree.
C15_PrunedScoreIsMinimax ==
    ChosenScored =>
        ai.transposition_table[ChosenHash][1]
            = Unpruned(ai, DoMove(board, call.info[1], call.info[2], ai.player),
                       ai.max_depth - 1, FALSE, call.move_count + 1)

\* C16: a score returned straight from an exact entry of the table equals
\* the score of the unpruned search of the node at the depth of the
\* lookup, with the last move as it is at the node.
C16_ExactEntryIsMinimax ==
    (call.op = "find_move" /\ ai.kind = "hard" /\ "clock" \in DOMAIN call) =>
        \A e \in ai.exact_returns :
            e.tt_score = Unpruned(ai, e.board, e.depth, e.maximizing_player,
                                  e.move_count)

\* A search has returned scores of exact entries, all of them equal to the
\* unpruned score of their nodes.
C16_ReachedRightReturns ==
    /\ call.op = "find_move"
    /\ ai.kind = "hard"
    /\ "clock" \in DOMAIN call
    /\ ai.exact_returns # {}
    /\ \A e \in ai.exact_returns :
           e.tt_score = Unpruned(ai, e.board, e.depth, e.maximizing_player,
                                 e.move_count)

\* C21: every score returned by _minimax for a node whose last ply
\* completed a winning line is the win constant plus the remaining depth
\* if the stone of that ply is of the strategy's own colour, and the loss
\* constant minus the remaining depth if it is of the opponent's colour.
C21_WinScoredForWinner ==
    (call.op = "find_move" /\ ai.kind = "hard") =>
        \A e \in ai.win_returns :
            e.score = IF e.stone = ai.player
                      THEN PATTERN_SCORES.p_win + e.depth
                      ELSE PATTERN_SCORES.o_win - e.depth

\* What the code does at such a node: the loss constant minus the depth,
\* whoever has won.
C21_EveryWinScoredAsLoss ==
    (call.op = "find_move" /\ ai.kind = "hard") =>
        \A e \in ai.win_returns :
            e.score = PATTERN_SCORES.o_win - e.depth

\* A search has met wins of both colours, at nodes of both sides.
C21_ReachedBothWinners ==
    /\ call.op = "find_move"
    /\ ai.kind = "hard"
    /\ \E e \in ai.win_returns :
           e.stone = ai.player /\ ~e.maximizing_player
    /\ \E e \in ai.win_returns :
           e.stone = ai.opponent /\ e.maximizing_player

\* The candidate cells of a node of the search on which a stone completes
\* a run of at least win_length, anywhere on the board.
CandidateWins(e, stone) ==
    e.candidate_moves \cap WinningCells(e.board, stone)

\* The side to move at a node of the search, and the other side.
SideToMove(e) == IF e.maximizing_player THEN ai.player ELSE ai.opponent

OtherSide(e) == IF e.maximizing_player THEN ai.opponent ELSE ai.player

\* The node searches one move only, a cell of S.
SearchesOnly(e, S) ==
    /\ Cardinality(e.ordered_possible_moves) = 1
    /\ e.ordered_possible_moves \subseteq S

\* C22: at every node of the search that goes on to its moves, if a
\* candidate cell completes a run of at least win_length for the side to
\* move, that move alone is searched; otherwise, if a candidate cell
\* completes such a run for the other side, that cell alone is searched.
C22_ForcedMoveOnly ==
    (call.op = "find_move" /\ ai.kind = "hard") =>
        \A e \in ai.searched :
            /\ CandidateWins(e, SideToMove(e)) # {} =>
                   SearchesOnly(e, CandidateWins(e, SideToMove(e)))
            /\ (CandidateWins(e, SideToMove(e)) = {}
                   /\ CandidateWins(e, OtherSide(e)) # {}) =>
                   SearchesOnly(e, CandidateWins(e, OtherSide(e)))

\* What the code does: no node searches the winning cell of the side to
\* move alone because it wins, and a node that searches one of several
\* candidates alone searches a cell that completes a run of the other
\* side through the stone played last.
C22_OnlyBlocksThroughLastMove ==
    (call.op = "find_move" /\ ai.kind = "hard") =>
        \A e \in ai.searched :
            (Cardinality(e.ordered_possible_moves) = 1
                /\ Cardinality(e.candidate_moves) > 1) =>
                LET cell == CHOOSE m \in e.ordered_possible_moves : TRUE
                    bt == SetCell(e.board, cell[1], cell[2], OtherSide(e))
                IN  /\ GridAt(e.board, e.board.last_move[1],
                              e.board.last_move[2]) = OtherSide(e)
                    /\ \E i \in DirIndices :
                           /\ RunLength(bt, e.board.last_move, DIRECTIONS[i],
                                        OtherSide(e)) >= e.board.win_length
                           /\ RunLength(bt, e.board.last_move, DIRECTIONS[i],
                                        OtherSide(e))
                                  = RunLength(bt, cell, DIRECTIONS[i],
                                              OtherSide(e))

\* A node has searched the forced block alone, and a node has searched
\* several moves although one of them wins for the side to move.
C22_ReachedBlockAndMissedWin ==
    /\ call.op = "find_move"
    /\ ai.kind = "hard"
    /\ \E e \in ai.searched :
           /\ CandidateWins(e, SideToMove(e)) = {}
           /\ Cardinality(e.candidate_moves) > 1
           /\ SearchesOnly(e, CandidateWins(e, OtherSide(e)))
    /\ \E e \in ai.searched :
           /\ CandidateWins(e, SideToMove(e)) # {}
           /\ Cardinality(e.ordered_possible_moves) > 1

\* The XOR of the keys of all occupied cells of a grid.
FullHash(size, grid) ==
    {zobrist_table(p[1], p[2], ZOBRIST_PLAYERS(grid[p[1] + 1][p[2] + 1])) :
        p \in {q \in Cells(size) : grid[q[1] + 1][q[2] + 1] # EMPTY}}

\* C23: every hash passed to _minimax is the full hash of the grid of the
\* node, and when find_move has returned current_hash is the full hash of
\* the board, which is as it was passed in.
C23_HashIsFullHash ==
    (call.op = "find_move" /\ ai.kind = "hard") =>
        /\ \A e \in ai.hashed : e.hash = FullHash(board.size, e.grid)
        /\ ai.current_hash = FullHash(board.size, board.grid)

\* The search has called _minimax two plies below the root, with a hash
\* of two keys more than the board has stones, and find_move has returned
\* because the time was found exceeded between two root moves.
C23_Witness ==
    /\ call.op = "find_move"
    /\ ai.kind = "hard"
    /\ ExpiredWithinDepth2
    /\ \E e \in ai.hashed : Cardinality(e.hash) = Stones(board) + 2

\* The lines of a list that hold five stones of one colour in a row, by
\* their place in the list.
LinesWithFive(lines) ==
    {k \in 1..Len(lines) :
        \E colour \in Players :
            \E i \in 1..(Len(lines[k]) - 4) : FiveAt(lines[k], i, colour)}

\* The place of the first five in a row on the line.
FirstFive(line) ==
    CHOOSE i \in 1..(Len(line) - 4) :
        /\ \E colour \in Players : FiveAt(line, i, colour)
        /\ \A j \in 1..(i - 1) : \A colour \in Players : ~FiveAt(line, j, colour)

\* The first line with a five in the order of the scan of _get_all_lines,
\* None if no line has one.
FirstLineWithFive ==
    LET lines == _get_all_lines(board)
        with_five == LinesWithFive(lines)
    IN  IF with_five = {} THEN None
        ELSE lines[CHOOSE k \in with_five : \A j \in with_five : k <= j]

\* The constant for a five of the colour, for the strategy of call.player.
FiveScore(colour) ==
    IF colour = call.player THEN PATTERN_SCORES.p_win
    ELSE PATTERN_SCORES.o_win

\* The evaluation is that of the five.
FiveDecides(line) == call.info = FiveScore(line[FirstFive(line)])

\* C24: _evaluate_board returns the win constant when the first line with
\* five stones in a row holds five of the strategy's colour, the loss
\* constant when it holds five of the opponent's, whatever precedes the
\* five on the line.
C24_FiveDecides ==
    call.op = "_evaluate_board" =>
        LET line == FirstLineWithFive
        IN  line # None => FiveDecides(line)

\* The five is hidden: the four cells before it are an empty cell and three
\* stones of the other colour, which with the first stone of the five make
\* the closed three of the other colour.
FiveHidden(line) ==
    LET i == FirstFive(line)
    IN  /\ i >= 5
        /\ line[i - 4] = EMPTY
        /\ \A j \in 1..3 : line[i - j] \notin {EMPTY, line[i]}

\* What the code does on these boards: the five decides unless it is
\* hidden.
C24_FiveDecidesUnlessHidden ==
    call.op = "_evaluate_board" =>
        LET line == FirstLineWithFive
        IN  (line # None /\ ~FiveHidden(line)) => FiveDecides(line)

\* A five of the strategy's own colour has decided with stones of both
\* colours before it on the line.
C24_ReachedFiveAfterStones ==
    /\ call.op = "_evaluate_board"
    /\ LET line == FirstLineWithFive
       IN  /\ line # None
           /\ FirstFive(line) >= 4
           /\ {BLACK, WHITE} \subseteq {line[j] : j \in 1..3}
           /\ line[FirstFive(line)] = call.player
           /\ call.info = PATTERN_SCORES.p_win

\* A hidden five has not decided.
C24_ReachedHiddenFive ==
    /\ call.op = "_evaluate_board"
    /\ LET line == FirstLineWithFive
       IN  /\ line # None
           /\ FiveHidden(line)
           /\ ~FiveDecides(line)

\* The cell is off the board or holds a stone of the other colour.
ClosedEnd(b, cell, player) ==
    \/ ~is_within_bounds(b, cell[1], cell[2])
    \/ GridAt(b, cell[1], cell[2]) \notin {EMPTY, player}

\* The cell is on the board and empty.
EmptyEnd(b, cell) ==
    is_within_bounds(b, cell[1], cell[2]) /\ GridAt(b, cell[1], cell[2]) = EMPTY

\* The four cells from p on in the direction hold stones of the player.
FourFrom(b, p, direction_char, player) ==
    \A i \in 0..3 :
        /\ is_within_bounds(b, ThreatCell(p[1], p[2], direction_char, i)[1],
                            ThreatCell(p[1], p[2], direction_char, i)[2])
        /\ GridAt(b, ThreatCell(p[1], p[2], direction_char, i)[1],
                  ThreatCell(p[1], p[2], direction_char, i)[2]) = player

\* The straight runs of four stones of the player with one end empty and
\* the other end closed, each by its first cell and its direction.
ClosedFourRuns(b, player) ==
    {x \in Cells(b.size) \X Elements(direction_chars) :
        /\ FourFrom(b, x[1], x[2], player)
        /\ \/ /\ EmptyEnd(b, ThreatCell(x[1][1], x[1][2], x[2], -1))
              /\ ClosedEnd(b, ThreatCell(x[1][1], x[1][2], x[2], 4), player)
           \/ /\ ClosedEnd(b, ThreatCell(x[1][1], x[1][2], x[2], -1), player)
              /\ EmptyEnd(b, ThreatCell(x[1][1], x[1][2], x[2], 4))}

\* The list returned has a closed four on the four stones of the run.
ReportedClosedFour(x) ==
    \E i \in 1..Len(call.info) :
        /\ call.info[i][1] = THREAT_CLOSED_FOUR
        /\ Elements(call.info[i][5])
              = {ThreatCell(x[1][1], x[1][2], x[2], k) : k \in 0..3}

\* C25: find_threats(player) reports a closed four for every run of four
\* stones of the player with one end empty and the other end closed by a
\* stone of the opponent or by the edge of the board.
C25_ClosedFourReported ==
    call.op = "find_threats" =>
        \A x \in ClosedFourRuns(board, call.player) : ReportedClosedFour(x)

\* What the code does: the runs closed by a stone of the opponent are
\* reported, those closed by the edge are not reported at all.
C25_ReportedIffClosedByStone ==
    call.op = "find_threats" =>
        \A x \in ClosedFourRuns(board, call.player) :
            ReportedClosedFour(x)
                <=> /\ is_within_bounds(board,
                                        ThreatCell(x[1][1], x[1][2], x[2], -1)[1],
                                        ThreatCell(x[1][1], x[1][2], x[2], -1)[2])
                    /\ is_within_bounds(board,
                                        ThreatCell(x[1][1], x[1][2], x[2], 4)[1],
                                        ThreatCell(x[1][1], x[1][2], x[2], 4)[2])

\* A run closed by a stone has been reported, and find_threats has
\* returned an empty list for a player with a run closed by the edge.
C25_ReachedClosedByStone ==
    /\ call.op = "find_threats"
    /\ \E x \in ClosedFourRuns(board, call.player) : ReportedClosedFour(x)

C25_ReachedClosedByEdge ==
    /\ call.op = "find_threats"
    /\ ClosedFourRuns(board, call.player) # {}
    /\ call.info = <<>>

\* C26: a cell returned by find_move of the Easy, the Normal or the Hard
\* strategy is a valid move for the strategy's player with the move_count
\* given, on the board as it was passed in, and the place_stone that the
\* controller makes of it with the same arguments succeeds.
C26_AnswerIsValid ==
    [][/\ (call'.op = "find_move" /\ call'.info # None) =>
              is_valid_move(board, call'.info[1], call'.info[2], ai.player,
                            call'.move_count).ret
       /\ (call.op = "find_move" /\ call'.op = "place_stone"
              /\ call'.player = ai.player
              /\ <<call'.row, call'.col>> = call.info
              /\ call'.move_count = call.move_count) =>
              call'.ret]_vars

\* The stone of an answer of find_move has been placed, on a board that
\* had an empty cell which was not a valid move for the strategy's player.
C26_Witness ==
    /\ call.op = "place_stone"
    /\ call.player = ai.player
    /\ call.ret
    /\ board.last_move = <<call.row, call.col>>
    /\ \E cell \in Elements(get_empty_cells(board)) :
           ~is_valid_move(SetCell(board, call.row, call.col, EMPTY), cell[1],
                          cell[2], ai.player, call.move_count).ret

\* Each of the three strategies has answered with a cell while another
\* empty cell was not a valid move.
AnsweredAmongInvalid(kind) ==
    /\ call.op = "find_move"
    /\ ai.kind = kind
    /\ call.info # None
    /\ \E cell \in Elements(get_empty_cells(board)) :
           ~is_valid_move(board, cell[1], cell[2], ai.player,
                          call.move_count).ret

C26_ReachedEasy == AnsweredAmongInvalid("easy")

C26_ReachedNormal == AnsweredAmongInvalid("normal")

C26_ReachedHard == AnsweredAmongInvalid("hard")


(***************************************************************************)
(* The game controller: history, game over, replay.                        *)
(***************************************************************************)
\* The step is a call of _make_move: a click of the human on a cell, or
\* the AI's turn with the answer of find_move.
MoveAttempted ==
    /\ call' # call
    /\ \/ call'.op = "place_stone"
       \/ call'.op = "find_move" /\ call'.info # None

\* The cell of the attempted move.
AttemptedCell ==
    IF call'.op = "place_stone" THEN <<call'.row, call'.col>> ELSE call'.info

\* The step puts one stone of the player to move on the empty cell and
\* enters the cell at the end of the history.
OneStoneAdded(cell) ==
    /\ is_empty(board, cell[1], cell[2])
    /\ board'.grid = SetCell(board, cell[1], cell[2], game.current_player).grid
    /\ game'.move_history = Append(game.move_history, cell)

\* The step leaves the stones, the last move, the history and the player to
\* move alone.
NothingMoved ==
    /\ board'.grid = board.grid
    /\ board'.last_move = board.last_move
    /\ game'.move_history = game.move_history
    /\ game'.current_player = game.current_player

\* C27: in every state of the game controller move_history is as long as
\* the number of stones on the live board; a call of _make_move either
\* adds one stone and one history entry, or, when place_stone rejects the
\* move, changes neither the stones, the last move, the history nor the
\* player to move.
C27_HistoryCountsStones ==
    /\ Len(game.move_history) = Stones(board)
    /\ [][/\ Len(game'.move_history) = Stones(board')
          /\ MoveAttempted =>
                 IF Len(game'.move_history) # Len(game.move_history)
                    \/ (call'.op = "place_stone" /\ call'.ret)
                 THEN OneStoneAdded(AttemptedCell)
                 ELSE NothingMoved]_vars

\* A started game with two stones, in which the human has clicked on an
\* occupied cell and the click was rejected.
C27_Witness ==
    /\ call.op = "place_stone"
    /\ ~call.ret
    /\ call.move_count = 2
    /\ Len(game.move_history) = 2
    /\ ~is_empty(board, call.row, call.col)
    /\ ~game.game_over

\* Reached as well: in Research Mode a click has placed a stone; the screen
\* was drawn, and the scores worked out after it ask for the board to be
\* painted again.
C27_ReachedResearchMove ==
    /\ call.op = "place_stone"
    /\ call.ret
    /\ game.research_mode_enabled
    /\ game.needs_redraw
    /\ Len(game.move_history) = call.move_count + 1
    /\ board.last_move = <<call.row, call.col>>

\* The step is the reset of the game by the Rematch button.
GameReset ==
    LET start == reset_game_settings(board.size, board.win_length,
                                     game_mode(ai), game.ai_starts, <<>>)
    IN  board' = start.board /\ game' = start.game

\* C28: once game_over is set, a step that is not the reset of the game
\* leaves game_over set and the stones, the winner and move_history as
\* they are.
C28_OverUntilReset ==
    [][game.game_over =>
          \/ GameReset
          \/ /\ game'.game_over
             /\ board'.grid = board.grid
             /\ game'.winner = game.winner
             /\ game'.move_history = game.move_history]_vars

\* A game that was won with cells still empty, looked at in the history
\* viewer afterwards.
C28_Witness ==
    /\ game.game_over
    /\ check_win(board, BLACK).won \/ check_win(board, WHITE).won
    /\ get_empty_cells(board) # <<>>
    /\ game.is_history_mode

\* A game that ended with a full board and no winner, looked at in the
\* history viewer afterwards.
C28_ReachedDrawViewed ==
    /\ game.game_over
    /\ ~check_win(board, BLACK).won
    /\ ~check_win(board, WHITE).won
    /\ get_empty_cells(board) = <<>>
    /\ game.is_history_mode

\* C29: rebuilding the board from the whole of move_history, entry i Black
\* for even i and White for odd i, gives the grid of the live board.
C29_RebuildIsLive ==
    _reconstruct_board(game, board, Len(game.move_history)).grid = board.grid

\* What holds instead: the rebuilt grid is the live one in every game whose
\* first stone is Black.
C29_RebuildIsLiveAfterBlackStart ==
    (game.move_history # <<>>
       => GridAt(board, game.move_history[1][1], game.move_history[1][2])
            = BLACK)
       => C29_RebuildIsLive

\* A game started with White to move: the first entry of the history is a
\* White stone, which the rebuilt board shows as a Black one.
C29_ReachedWhiteFirst ==
    /\ game.move_history # <<>>
    /\ GridAt(board, game.move_history[1][1], game.move_history[1][2]) = WHITE
    /\ GridAt(_reconstruct_board(game, board, Len(game.move_history)),
              game.move_history[1][1], game.move_history[1][2]) = BLACK

\* C30: outside history mode display_move_index is the length of
\* move_history; in history mode it is smaller.
C30_IndexTracksHistory ==
    IF game.is_history_mode
    THEN game.display_move_index < Len(game.move_history)
    ELSE game.display_move_index = Len(game.move_history)

\* What holds instead: display_move_index never exceeds the length of
\* move_history, and is smaller in history mode.
C30_IndexWithinHistory ==
    /\ game.display_move_index \in 0..Len(game.move_history)
    /\ game.is_history_mode
         => game.display_move_index < Len(game.move_history)

\* A move was made outside history mode and display_move_index was left
\* behind: the parity of the index names the player who has just moved.
C30_ReachedStaleIndex ==
    /\ ~game.is_history_mode
    /\ ~game.game_over
    /\ game.display_move_index = Len(game.move_history) - 1
    /\ (IF game.display_move_index % 2 = 0 THEN BLACK ELSE WHITE)
           # game.current_player

\* The viewer is in history mode, brought there from a stale index.
C30_ReachedHistoryMode ==
    /\ game.is_history_mode
    /\ Len(game.move_history) <= MaxPlayed
    /\ game.display_move_index = 0
====
